---- MODULE Spec2Model ----
(***************************************************************************)
(* A model of homeassistant-satellite: the microphone pipeline stages of   *)
(* mic_process.py, the audio/event multiplexer of remote.py, the main loop *)
(* and the playback thread of __main__.py, the PulseAudio ducking of       *)
(* snd.py and the message dispatch of ha_connection.py.                    *)
(*                                                                         *)
(* Each component has its own specification (SpecVolume, SpecVad, ...)     *)
(* over the variables it uses; the variables of the other components keep  *)
(* their initial value there.                                              *)
(***************************************************************************)
EXTENDS Integers, Sequences, FiniteSets, TLC

VARIABLES
    \* util.multiply_volume / _volume_multiplier_pipe
    vol_chunk,          \* the input chunk: a sequence of bytes (16-bit LE PCM)
    vol_mult,           \* volume_multiplier as a fraction <<num, den>>
    vol_out,            \* the chunk yielded by the stage (bytes), <<>> before
    vol_pc,             \* "in": chunk not yet processed, "out": yielded
    \* state.State (shared between the threads)
    mic,                \* state.mic
    vad_prob,           \* state.vad_prob
    \* the mic thread: chunk source and the locals of _vad_pipe
    cap_n,              \* number of chunks captured so far (chunk ids 1..cap_n)
    mic_pc,             \* "score": next chunk enters the scorer, "gate": it enters the gate
    vad_cfg,            \* [thr, lvl, n]: vad_threshold, vad_trigger_level, vad_buffer_chunks
    vad_activation,     \* _vad_pipe.vad_activation
    vad_chunk_buffer,   \* _vad_pipe.vad_chunk_buffer (deque with maxlen)
    vad_seen,           \* history: chunks received in WAIT_FOR_VAD since the last flush
    vad_hist,           \* history: TRUE/FALSE (score >= threshold) of those chunks
    vad_last,           \* history: what the gate did with the last chunk
    vad_lost,           \* history: chunks evicted from the ring buffer
    mic_writes,         \* number of writes of state.mic by the other threads so far
    \* the mic thread with both skip stages (VAD and wake word disabled)
    ready_to_stream,    \* the asyncio.Event passed to the wake-word stage: is it set
    recording_queue,    \* recording_queue: chunks put by the mic thread, not yet taken
    skip_pass,          \* history: [chunk, entry, clean] of the chunk in the pipeline
    \* the playback thread (_playback_proc) and its queue
    playback_queue,     \* playback_queue: the items put and not yet taken
    pb_pc,              \* "get": at playback_queue.get, "play": inside play(),
                        \* "returned": got None, "crashed": os._exit(-1)
    pb_item,            \* the PlayMedia item being played
    pb_written,         \* chunks of it written to the device so far
    media_len,          \* the number of chunks each decodable media decodes to
    pb_submitted,       \* history: every item put on the queue, in order
    pb_log,             \* history: device writes and executed commands, in order
    \* PulseAudio (play_pulseaudio)
    streams,            \* pactl.sink_input_list(): index -> [sink, name, vol]
    ducked,             \* ducked: stream index -> volume before ducking
    ducking_volume,     \* ducking_volume
    duck_n,             \* history: number of duck() calls so far
    duck_run,           \* history: the enable arguments of the duck() calls since
                        \* the last change of a volume by another application
    duck_prev,          \* history: the enable argument of the last duck() call
                        \* ("True", "False"; "none" before the first)
    duck_snap,          \* history: the volumes before the first duck(True) of a row
    vol_changes,        \* number of volume changes by other applications so far
    \* remote._audio_to_events (the queue it reads is recording_queue)
    handler_id,         \* handler_id
    ws_in,              \* messages that arrived on the websocket, not yet received
    ws_n,               \* number of messages that arrived so far (message ids 1..ws_n)
    tasks,              \* the asyncio tasks created: id -> [kind, st, val]
    audio_task,         \* audio_task (a task id)
    event_task,         \* event_task (a task id)
    pending,            \* pending (a set of task ids)
    mux_pc,             \* "wait": at asyncio.wait, "yield": at the yield, "ended":
                        \* returned, "raised": left by an exception, "closed": closed
                        \* by the caller at the yield
    mux_event,          \* the event yielded last: [id, type, code]
    wire,               \* history: the binary frames sent, in order
    yielded,            \* history: ids of the messages yielded as events
    decoded,            \* history: ids of the messages passed to json.loads
    mux_last,           \* history: what the last pass of the loop serviced
    \* main(): the orchestration loop, with the mic thread and the capture source
    main_pc,            \* "loop": at the top of the while loop, "run": inside the
                        \* async for over stream(), "join": in the finally block at
                        \* mic_thread.join(), "ended": the exit request is put
    main_args,          \* [awake, done, duck, vad]: args.awake_sound, args.done_sound,
                        \* args.ducking_volume is not None, args.vad != "disabled"
    is_running,         \* state.is_running
    main_runs,          \* number of calls of stream() so far
    main_events,        \* number of events handled so far
    cap_avail,          \* has the capture source a chunk for the mic thread
    mic_seen,           \* the value the mic thread is about to assign to state.mic
                        \* ("none": no assignment under way)
    hs_failed,          \* history: a handshake failed
    stt_mark,           \* history: number of items put before the stt-end of the
                        \* run in progress (-1: none)
    ret_mark,           \* history: number of items put before the last run-end/error
                        \* handled while mic was not WAIT_FOR_VAD (-1: none)
    cur_plays,          \* history: put numbers of the PlayMedia items of the run
    ret_plays,          \* history: cur_plays at the last run-end/error
    run_stage,          \* the stage of the pipeline run the server has reported
    \* mic_thread_entry: the assembled pipeline (SpecPipe)
    pipe_wake,          \* args.wake_word == "wyoming"
    pipe_flush,         \* the chunks the VAD stage has still to yield for the chunk
                        \* it is processing, in the order it yields them
    \* ha_connection.HAConnection
    ha_message_id,      \* _message_id
    ha_queues,          \* _message_queues: message id -> the messages in the queue
    ha_calls,           \* the calls of send_and_receive(_many) made so far:
                        \* [kind, id, pc, got]; got: the responses the call received
    ha_n,               \* number of messages received from the websocket so far
    ha_alive,           \* FALSE once __receive_loop has called os._exit(-1)
    ha_arrived,         \* history: the messages received, [n, id, type, calls];
                        \* calls: the number of calls made before it arrived
    \* mic_process._wyoming_wake_word_pipe and wake_word.WyomingWakeWordDetector
    wake_detected,      \* wake._detected
    wake_queue,         \* the chunks process_chunk has put on wake._queue since
                        \* the last reset()
    wake_det_at,        \* history: cap_n when _detected was last set (0: never)
    wake_woke_at,       \* history: the chunk at which the stage last set
                        \* state.mic = RECORDING (0: never)
    \* __main__._mic_proc
    mic_iter,           \* history: the iteration in progress or the last one:
                        \* [chunk, gate, put]: the value of state.mic read by
                        \* each of the two ifs ("none": not read yet)
    \* wake_word.WyomingWakeWordDetector (SpecDetector; _detected is wake_detected)
    det_queue,          \* _queue: the number of the Queue object (0: None)
    det_task,           \* _run_wyoming_task: the number of the task (0: None)
    det_queues,         \* the Queue objects created so far: their contents
    det_tasks,          \* the _run_wyoming tasks created so far: [pc, q, audio,
                        \* got, ev, taken]; q: the queue the outstanding
                        \* audio_task reads; audio: "pending", "done" or "none"
                        \* (no audio_task outstanding); got: the result of a done
                        \* audio_task; ev: the result of a done wake_task ("none":
                        \* pending); taken: history, the chunks the task took
    det_sent,           \* the chunks written to the wake word server: [task, chunk]
    det_calls,          \* history: the calls of process_chunk: [chunk,
                        \* after_reset, newq, newtask]
    det_events,         \* number of events received from the wake word server
    det_reset           \* history: reset() was called and process_chunk has not
                        \* been called since

volVars == <<vol_chunk, vol_mult, vol_out, vol_pc>>
vadVars == <<cap_n, mic_pc, vad_cfg, vad_activation, vad_chunk_buffer,
             vad_seen, vad_hist, vad_last, vad_lost, mic_writes>>
stateVars == <<mic, vad_prob>>
skipVars == <<ready_to_stream, recording_queue, skip_pass>>
pbVars == <<playback_queue, pb_pc, pb_item, pb_written, media_len, pb_submitted, pb_log>>
paVars == <<streams, ducked, ducking_volume>>
duckHist == <<duck_n, duck_run, duck_prev, duck_snap, vol_changes>>
muxVars == <<handler_id, ws_in, ws_n, tasks, audio_task, event_task, pending,
             mux_pc, mux_event, wire, yielded, decoded, mux_last>>
mainVars == <<main_pc, main_args, is_running, main_runs, main_events, cap_avail,
              mic_seen, hs_failed, stt_mark, ret_mark, cur_plays, ret_plays, run_stage>>
pipeVars == <<pipe_wake, pipe_flush>>
haVars == <<ha_message_id, ha_queues, ha_calls, ha_n, ha_alive, ha_arrived>>
wakeVars == <<wake_detected, wake_queue, wake_det_at, wake_woke_at>>
procVars == <<mic_iter>>
detVars == <<det_queue, det_task, det_queues, det_tasks, det_sent, det_calls,
             det_events, det_reset>>
vars == <<volVars, stateVars, vadVars, skipVars, pbVars, paVars, duckHist, muxVars,
          mainVars, pipeVars, haVars, wakeVars, procVars, detVars>>

(***************************************************************************)
(* Bounds of the model.                                                    *)
(***************************************************************************)
MaxVolLen == 2          \* samples per chunk in SpecVolume
MaxChunks == 8          \* chunks captured in SpecVad
MaxBuf == 5             \* largest vad_buffer_chunks
MaxTrigger == 3         \* largest vad_trigger_level
MaxProb == 1            \* score levels 0..MaxProb
MaxMicWrites == 2       \* writes of state.mic by the other threads in SpecVad, SpecSkip
MaxSkipChunks == 4      \* chunks captured in SpecSkip
MaxCmds == 3            \* items put on the playback queue in SpecPlayback
MaxMediaChunks == 2     \* chunks a media decodes to
MaxLevel == 1           \* volume levels 0..MaxLevel of one channel
MaxDucks == 4           \* duck() calls in SpecDuck
MaxVolChanges == 1      \* volume changes by other applications in SpecDuck
MaxMuxChunks == 2       \* chunks put on recording_queue in SpecMux
MaxMsgs == 2            \* messages arriving on the websocket in SpecMux
MaxRuns == 2            \* calls of stream() in SpecMain
MaxEvents == 2          \* events handled by main() in SpecMain
MaxPipeChunks == 4      \* chunks captured in SpecPipe
MaxPipeBuf == 2         \* largest vad_buffer_chunks in SpecPipe
MaxPipeTrigger == 2     \* largest vad_trigger_level in SpecPipe
MaxCalls == 2           \* calls of send_and_receive(_many) in SpecHA
MaxResponses == 2       \* messages received from the websocket in SpecHA
MaxWakeChunks == 4      \* chunks entering the wake word stage in SpecWake
MaxProcChunks == 3      \* chunks captured by _mic_proc in SpecMicProc, SpecMicMain
MaxDetChunks == 3       \* calls of process_chunk in SpecDetector
MaxDetEvents == 2       \* events from the wake word server in SpecDetector

Max(a, b) == IF a >= b THEN a ELSE b
Range(s) == {s[i] : i \in 1..Len(s)}
NoDup(s) == \A i, j \in 1..Len(s) : i # j => s[i] # s[j]
\* the last n elements of s (all of s when it is shorter)
LastN(s, n) == SubSeq(s, Max(1, Len(s) - n + 1), Len(s))

(***************************************************************************)
(* state.py                                                                *)
(***************************************************************************)
NOT_RECORDING == "NOT_RECORDING"
WAIT_FOR_VAD == "WAIT_FOR_VAD"
WAIT_FOR_WAKE_WORD == "WAIT_FOR_WAKE_WORD"
RECORDING == "RECORDING"

\* The members of MicState in the order of their values (auto() numbers
\* them 1, 2, ...).  mic_process.py uses the four-member enumeration.
MicStateOrder == <<NOT_RECORDING, WAIT_FOR_VAD, WAIT_FOR_WAKE_WORD, RECORDING>>
MicState == Range(MicStateOrder)
MicValue(m) == CHOOSE i \in 1..Len(MicStateOrder) : MicStateOrder[i] = m

\* MicState.next: MicState(self.value + 1); a value past the last member
\* raises ValueError, modelled as "ValueError"
MicNext(m) ==
    IF MicValue(m) + 1 <= Len(MicStateOrder)
    THEN MicStateOrder[MicValue(m) + 1]
    ELSE "ValueError"

(***************************************************************************)
(* util.py: multiply_volume                                                *)
(***************************************************************************)
\* array.array("h", chunk): pairs of bytes to signed 16-bit samples
DecodeSample(lo, hi) ==
    LET u == lo + 256 * hi IN IF u >= 32768 THEN u - 65536 ELSE u
DecodeH(bytes) ==
    [i \in 1..(Len(bytes) \div 2) |-> DecodeSample(bytes[2 * i - 1], bytes[2 * i])]
\* array.array("h", samples).tobytes()
EncodeH(samples) ==
    [i \in 1..(2 * Len(samples)) |->
        LET s == samples[(i + 1) \div 2]
            u == IF s < 0 THEN s + 65536 ELSE s
        IN IF i % 2 = 1 THEN u % 256 ELSE u \div 256]

\* A float is modelled as a fraction <<num, den>> with den > 0 (exact for
\* the dyadic multipliers used here).
\* (a 16-bit store without the clamp: wraps around)
ClampWrap(v) ==
    LET q == IF v[1] >= 0 THEN v[1] \div v[2] ELSE -((-v[1]) \div v[2])
        u == q % 65536
    IN <<IF u >= 32768 THEN u - 65536 ELSE u, 1>>
\* _clamp: max(-32768, min(32767, val))
clamp(v) ==
    IF v[1] < -32768 * v[2] THEN <<-32768, 1>>
    ELSE IF v[1] > 32767 * v[2] THEN <<32767, 1>>
    ELSE v
\* int(): truncation toward zero
IntTrunc(v) == IF v[1] >= 0 THEN v[1] \div v[2] ELSE -((-v[1]) \div v[2])

multiply_volume(chunk, m) ==
    LET values == DecodeH(chunk)
    IN EncodeH([i \in 1..Len(values) |-> IntTrunc(clamp(<<values[i] * m[1], m[2]>>))])

\* _volume_multiplier_pipe: one chunk in, the multiplied chunk out
VolumePipe ==
    /\ vol_pc = "in"
    /\ vol_out' = multiply_volume(vol_chunk, vol_mult)
    /\ vol_pc' = "out"
    /\ UNCHANGED <<vol_chunk, vol_mult>>

(***************************************************************************)
(* mic_process.py: scorer stage and _vad_pipe                              *)
(***************************************************************************)
DequeAppendUnbounded(buf, c, n) == Append(buf, c)
\* collections.deque(maxlen=n).append
DequeAppend(buf, c, n) == LastN(Append(buf, c), n)

\* (a scorer that writes its score in every mic state)
ScorerWriteAlways(m, old, p) == p
\* _silero_pipe: the score is written only in WAIT_FOR_VAD
ScorerWrite(m, old, p) == IF m = WAIT_FOR_VAD THEN p ELSE old

\* the activation counter after a chunk with score p
VadCountNoFloor(act, p, thr) == IF p >= thr THEN act + 1 ELSE act - 1
VadCount(act, p, thr) == IF p >= thr THEN act + 1 ELSE Max(0, act - 1)

VadTriggered(act, lvl) == act >= lvl

\* (a gate that also buffers the chunks it passes through)
vad_pipe_buffering(m, p, act, buf, c, cfg) ==
    LET buf1 == DequeAppend(buf, c, cfg.n)
        act1 == VadCount(act, p, cfg.thr)
    IN IF m # WAIT_FOR_VAD
       THEN [mic |-> m, vad_prob |-> p, act |-> act, buf |-> buf1, out |-> <<c>>]
       ELSE IF VadTriggered(act1, cfg.lvl)
            THEN [mic |-> WAIT_FOR_WAKE_WORD, vad_prob |-> 0, act |-> 0,
                  buf |-> <<>>, out |-> buf1]
            ELSE [mic |-> m, vad_prob |-> 0, act |-> act1, buf |-> buf1, out |-> <<>>]
\* one iteration of the loop of _vad_pipe for chunk c: the new values of
\* state.mic, state.vad_prob, the locals, and the chunks yielded
vad_pipe(m, p, act, buf, c, cfg) ==
    IF m # WAIT_FOR_VAD
    THEN [mic |-> m, vad_prob |-> p, act |-> act, buf |-> buf, out |-> <<c>>]
    ELSE LET buf1 == DequeAppend(buf, c, cfg.n)
             act1 == VadCount(act, p, cfg.thr)
         IN IF VadTriggered(act1, cfg.lvl)
            THEN [mic |-> WAIT_FOR_WAKE_WORD, vad_prob |-> 0, act |-> 0,
                  buf |-> <<>>, out |-> buf1]
            ELSE [mic |-> m, vad_prob |-> 0, act |-> act1,
                  buf |-> buf1, out |-> <<>>]

\* a chunk is captured and passes the scorer
MicScore ==
    /\ mic_pc = "score"
    /\ cap_n < MaxChunks
    /\ \E p \in 0..MaxProb : vad_prob' = ScorerWrite(mic, vad_prob, p)
    /\ cap_n' = cap_n + 1
    /\ mic_pc' = "gate"
    /\ UNCHANGED <<mic, vad_cfg, vad_activation, vad_chunk_buffer,
                   vad_seen, vad_hist, vad_last, vad_lost, mic_writes>>

\* the chunk passes the VAD gate
MicGate ==
    /\ mic_pc = "gate"
    /\ LET r == vad_pipe(mic, vad_prob, vad_activation, vad_chunk_buffer, cap_n, vad_cfg)
           waiting == mic = WAIT_FOR_VAD
           trig == waiting /\ r.mic # mic
           seen1 == IF waiting THEN Append(vad_seen, cap_n) ELSE vad_seen
       IN /\ mic' = r.mic
          /\ vad_prob' = r.vad_prob
          /\ vad_activation' = r.act
          /\ vad_chunk_buffer' = r.buf
          /\ vad_seen' = IF trig THEN <<>> ELSE seen1
          /\ vad_hist' = IF trig THEN <<>>
                         ELSE IF waiting THEN Append(vad_hist, vad_prob >= vad_cfg.thr)
                         ELSE vad_hist
          /\ vad_last' = [chunk |-> cap_n, waiting |-> waiting, trig |-> trig,
                          seen |-> seen1, out |-> r.out,
                          hist |-> IF waiting THEN Append(vad_hist, vad_prob >= vad_cfg.thr)
                                   ELSE vad_hist]
          /\ vad_lost' = IF waiting
                         THEN vad_lost \cup (Range(Append(vad_chunk_buffer, cap_n)) \ Range(r.buf \o r.out))
                         ELSE vad_lost
    /\ mic_pc' = "score"
    /\ UNCHANGED <<cap_n, vad_cfg, mic_writes>>

\* another thread assigns state.mic (the playback thread executing
\* SetMicState, the event loop, a later stage of the pipeline)
MicWrittenElsewhere ==
    /\ mic_writes < MaxMicWrites
    /\ \E m \in MicState : mic' = m
    /\ mic' # mic
    /\ mic_writes' = mic_writes + 1
    /\ UNCHANGED <<vad_prob, cap_n, mic_pc, vad_cfg, vad_activation, vad_chunk_buffer,
                   vad_seen, vad_hist, vad_last, vad_lost>>

(***************************************************************************)
(* mic_process.py: _skip_mic_state_pipe and the pipeline mic_thread_entry  *)
(* assembles with --vad disabled and no wake word detection                *)
(***************************************************************************)
\* (the stage without the event.set())
SkipWithoutEvent(m, ev, skip, hasEvent) ==
    IF m = skip THEN [mic |-> MicNext(m), ev |-> ev] ELSE [mic |-> m, ev |-> ev]
\* one iteration of _skip_mic_state_pipe: state.mic and the event after it
\* (the chunk is always yielded)
skip_mic_state_pipe(m, ev, skip, hasEvent) ==
    IF m = skip
    THEN [mic |-> MicNext(m), ev |-> IF hasEvent THEN TRUE ELSE ev]
    ELSE [mic |-> m, ev |-> ev]

\* a chunk is captured and passes the stage that skips WAIT_FOR_VAD
SkipVadStage ==
    /\ mic_pc = "skip_vad"
    /\ cap_n < MaxSkipChunks
    /\ cap_n' = cap_n + 1
    /\ LET r == skip_mic_state_pipe(mic, ready_to_stream, WAIT_FOR_VAD, FALSE)
       IN mic' = r.mic /\ ready_to_stream' = r.ev
    /\ skip_pass' = [chunk |-> cap_n + 1, entry |-> mic, clean |-> TRUE]
    /\ mic_pc' = "skip_wake"
    /\ UNCHANGED <<vad_prob, recording_queue, mic_writes>>

\* the chunk passes the stage that skips WAIT_FOR_WAKE_WORD and sets ready_to_stream
SkipWakeStage ==
    /\ mic_pc = "skip_wake"
    /\ LET r == skip_mic_state_pipe(mic, ready_to_stream, WAIT_FOR_WAKE_WORD, TRUE)
       IN mic' = r.mic /\ ready_to_stream' = r.ev
    /\ mic_pc' = "put"
    /\ UNCHANGED <<vad_prob, cap_n, recording_queue, skip_pass, mic_writes>>

\* mic_thread_entry: the chunk leaving the last stage is put on recording_queue
MicPut ==
    /\ mic_pc = "put"
    /\ recording_queue' = Append(recording_queue, cap_n)
    /\ mic_pc' = "skip_vad"
    /\ UNCHANGED <<stateVars, cap_n, ready_to_stream, skip_pass, mic_writes>>

\* another thread assigns state.mic while the mic thread runs
SkipMicWrittenElsewhere ==
    /\ mic_writes < MaxMicWrites
    /\ \E m \in MicState : mic' = m
    /\ mic' # mic
    /\ mic_writes' = mic_writes + 1
    /\ skip_pass' = [skip_pass EXCEPT !.clean = FALSE]
    /\ UNCHANGED <<vad_prob, cap_n, mic_pc, ready_to_stream, recording_queue>>

(***************************************************************************)
(* snd.py: play_pulseaudio                                                 *)
(***************************************************************************)
APP_NAME == "homeassistant_satellite"
\* the sink the satellite plays on (sink.index) and another sink
OurSink == "sink"
OtherSink == "other_sink"

\* The sink inputs: two streams of other applications on our sink, the
\* satellite's own stream, and a stream on another sink.
StreamTable ==
    <<[sink |-> OurSink, name |-> "music"],
      [sink |-> OurSink, name |-> "radio"],
      [sink |-> OurSink, name |-> APP_NAME],
      [sink |-> OtherSink, name |-> "music"]>>
StreamIndex == DOMAIN StreamTable
Levels == 0..MaxLevel
\* a volume: the levels of the two channels (stream.volume.values)
Volumes == Levels \X Levels

\* pactl.volume_set_all_chans(stream, v)
AllChans(v) == <<v, v>>

\* (every input of our sink, our own included)
DuckTargetsOwnToo(st) == {i \in DOMAIN st : st[i].sink = OurSink}
\* the streams duck() processes: the inputs of our sink except our own
DuckTargets(st) == {i \in DOMAIN st : st[i].sink = OurSink /\ st[i].name # APP_NAME}

\* (duck with ducked[stream.index] = ... in place of setdefault)
DuckOverwrite(st, dk, dv, enable) ==
    LET aff == DuckTargets(st)
    IN IF enable
       THEN [streams |-> [i \in DOMAIN st |->
                            IF i \in aff THEN [st[i] EXCEPT !.vol = AllChans(dv)] ELSE st[i]],
             ducked |-> [i \in (DOMAIN dk) \cup aff |->
                            IF i \in aff THEN st[i].vol ELSE dk[i]]]
       ELSE [streams |-> [i \in DOMAIN st |->
                            IF i \in aff \cap DOMAIN dk
                            THEN [st[i] EXCEPT !.vol = dk[i]] ELSE st[i]],
             ducked |-> [i \in (DOMAIN dk) \ aff |-> dk[i]]]
\* duck(enable): the sink inputs and the ducked map after the call
duck(st, dk, dv, enable) ==
    LET aff == DuckTargets(st)
    IN IF enable
       THEN [streams |-> [i \in DOMAIN st |->
                            IF i \in aff THEN [st[i] EXCEPT !.vol = AllChans(dv)] ELSE st[i]],
             ducked |-> [i \in (DOMAIN dk) \cup aff |->
                            IF i \in DOMAIN dk THEN dk[i] ELSE st[i].vol]]
       ELSE [streams |-> [i \in DOMAIN st |->
                            IF i \in aff \cap DOMAIN dk
                            THEN [st[i] EXCEPT !.vol = dk[i]] ELSE st[i]],
             ducked |-> [i \in (DOMAIN dk) \ aff |-> dk[i]]]

\* (nothing is restored on exit)
UnduckNothing(st, dk) == st
\* play_pulseaudio's finally: every stream in the ducked map is set to the
\* volume remembered for it (the map itself is left as it is)
Unduck(st, dk) ==
    [i \in DOMAIN st |-> IF i \in DOMAIN dk THEN [st[i] EXCEPT !.vol = dk[i]] ELSE st[i]]

\* the playback thread executes duck(enable)
DuckCall ==
    /\ duck_n < MaxDucks
    /\ \E enable \in BOOLEAN :
          LET r == duck(streams, ducked, ducking_volume, enable)
          IN /\ streams' = r.streams
             /\ ducked' = r.ducked
             /\ duck_run' = Append(duck_run, enable)
             /\ duck_prev' = IF enable THEN "True" ELSE "False"
             /\ duck_snap' = IF enable /\ duck_prev # "True"
                             THEN [i \in DOMAIN streams |-> streams[i].vol]
                             ELSE duck_snap
    /\ duck_n' = duck_n + 1
    /\ UNCHANGED <<ducking_volume, vol_changes>>

\* another application (or the user) sets the volume of a sink input
VolumeChangedElsewhere ==
    /\ vol_changes < MaxVolChanges
    /\ \E i \in DOMAIN streams : \E v \in Volumes :
          /\ streams[i].name # APP_NAME
          /\ v # streams[i].vol
          /\ streams' = [streams EXCEPT ![i].vol = v]
    /\ vol_changes' = vol_changes + 1
    /\ duck_run' = <<>>
    /\ UNCHANGED <<ducked, ducking_volume, duck_n, duck_prev, duck_snap>>

(***************************************************************************)
(* __main__.py: the playback queue and _playback_proc                      *)
(***************************************************************************)
Media == {"A", "B"}
\* a media that cannot be decoded: media_to_chunks raises
BadMedia == "X"

PlayMedia(m) == [kind |-> "PlayMedia", arg |-> m]
SetMicState(m) == [kind |-> "SetMicState", arg |-> m]
Duck(b) == [kind |-> "Duck", arg |-> b]
\* the exit request
None == [kind |-> "None", arg |-> "None"]
PlaybackQueueItem ==
    {PlayMedia(m) : m \in Media \cup {BadMedia}}
        \cup {SetMicState(m) : m \in MicState}
        \cup {Duck(b) : b \in BOOLEAN}
        \cup {None}

\* (a LIFO get)
QueueGetLast(q) == [item |-> q[Len(q)], rest |-> SubSeq(q, 1, Len(q) - 1)]
\* queue.Queue.get on a non-empty queue: the oldest item
QueueGet(q) == [item |-> Head(q), rest |-> Tail(q)]

\* (the loop goes on after None)
LoopNeverEnds(item) == "get"
\* for item in iter(playback_queue.get, None): the loop ends on None, and
\* _playback_proc returns
LoopAfter(item) == IF item.kind = "None" THEN "returned" ELSE "get"

\* play(): the loop over the chunks ends when all are written
PlayFinished(written, len) == written >= len

\* has main() reached its finally block (the exit request is put there)
MainEnded == pb_submitted # <<>> /\ pb_submitted[Len(pb_submitted)] = None

\* main() puts an item on the queue (put_nowait); None is put last, in the
\* finally block of main().  The queue entries carry the number of the put.
PlaybackPut ==
    /\ pb_pc # "crashed"
    /\ Len(pb_submitted) < MaxCmds
    /\ ~MainEnded
    /\ \E item \in PlaybackQueueItem :
          /\ playback_queue' = Append(playback_queue,
                                      [item |-> item, n |-> Len(pb_submitted) + 1])
          /\ pb_submitted' = Append(pb_submitted, item)
    /\ UNCHANGED <<pb_pc, pb_item, pb_written, media_len, pb_log, mic, vad_prob, paVars>>

\* an item is put on the queue after the exit request (main() does not do
\* it; the queue accepts it)
PlaybackPutLate ==
    /\ pb_pc # "crashed"
    /\ Len(pb_submitted) < MaxCmds
    /\ MainEnded
    /\ \E item \in PlaybackQueueItem \ {None} :
          /\ playback_queue' = Append(playback_queue,
                                      [item |-> item, n |-> Len(pb_submitted) + 1])
          /\ pb_submitted' = Append(pb_submitted, item)
    /\ UNCHANGED <<pb_pc, pb_item, pb_written, media_len, pb_log, mic, vad_prob, paVars>>

\* _playback_proc takes the next item and executes it (for PlayMedia: up to
\* the first device write)
PlaybackGet ==
    /\ pb_pc = "get"
    /\ playback_queue # <<>>
    /\ LET g == QueueGet(playback_queue)
           item == g.item.item
           id == g.item.n
       IN /\ playback_queue' = g.rest
          /\ CASE item.kind = "None" ->
                    /\ pb_pc' = LoopAfter(item)
                    /\ streams' = Unduck(streams, ducked)
                    /\ UNCHANGED <<pb_item, pb_written, pb_log, mic, ducked, ducking_volume>>
               [] item.kind = "PlayMedia" /\ item.arg = BadMedia ->
                    /\ pb_pc' = "crashed"
                    /\ UNCHANGED <<pb_item, pb_written, pb_log, mic, paVars>>
               [] item.kind = "PlayMedia" /\ item.arg # BadMedia ->
                    /\ pb_item' = [media |-> item.arg, id |-> id]
                    /\ pb_written' = 0
                    /\ pb_pc' = IF PlayFinished(0, media_len[item.arg]) THEN "get" ELSE "play"
                    /\ pb_log' = Append(pb_log, [ev |-> "play", id |-> id, arg |-> item.arg])
                    /\ UNCHANGED <<mic, paVars>>
               [] item.kind = "SetMicState" ->
                    /\ mic' = item.arg
                    /\ pb_log' = Append(pb_log, [ev |-> "mic", id |-> id, arg |-> item.arg])
                    /\ UNCHANGED <<pb_pc, pb_item, pb_written, paVars>>
               [] item.kind = "Duck" ->
                    /\ LET r == duck(streams, ducked, ducking_volume, item.arg)
                       IN streams' = r.streams /\ ducked' = r.ducked
                    /\ pb_log' = Append(pb_log, [ev |-> "duck", id |-> id, arg |-> item.arg])
                    /\ UNCHANGED <<pb_pc, pb_item, pb_written, mic, ducking_volume>>
    /\ UNCHANGED <<media_len, pb_submitted, vad_prob>>

\* play(): one chunk is written to the device (pa.write)
PlaybackWrite ==
    /\ pb_pc = "play"
    /\ pb_written' = pb_written + 1
    /\ pb_log' = Append(pb_log, [ev |-> "write", id |-> pb_item.id, arg |-> pb_written + 1])
    /\ pb_pc' = IF PlayFinished(pb_written + 1, media_len[pb_item.media]) THEN "get" ELSE "play"
    /\ UNCHANGED <<playback_queue, pb_item, media_len, pb_submitted, mic, vad_prob, paVars>>

\* main() assigns state.mic itself (on wake_word-end and stt-end, and after
\* an exception)
MainSetsMic ==
    /\ pb_pc # "crashed"
    /\ ~MainEnded
    /\ \E m \in {NOT_RECORDING, WAIT_FOR_VAD} : mic' = m
    /\ mic' # mic
    /\ UNCHANGED <<vad_prob, pbVars, paVars>>

(***************************************************************************)
(* remote.py: _audio_to_events                                             *)
(***************************************************************************)
\* the messages websocket.receive() can return: msg.type and msg.data
WsMessages ==
    {[type |-> "BINARY", data |-> "bytes"],
     [type |-> "CLOSED", data |-> ""],
     [type |-> "ERROR", data |-> ""],
     [type |-> "TEXT", data |-> "not json"],
     [type |-> "TEXT", data |-> "result"],
     [type |-> "TEXT", data |-> "stt-end"],
     [type |-> "TEXT", data |-> "run-end"],
     [type |-> "TEXT", data |-> "error wake-word-timeout"],
     [type |-> "TEXT", data |-> "error stt-no-text-recognized"]}

\* json.loads(msg.data) and the fields read from it: ok is FALSE when
\* json.loads raises; type is event.get("type"); etype is
\* event["event"]["type"]; code is event["event"]["data"].get("code")
JsonLoads(data) ==
    CASE data = "not json" -> [ok |-> FALSE, type |-> "", etype |-> "", code |-> ""]
      [] data = "result" -> [ok |-> TRUE, type |-> "result", etype |-> "", code |-> ""]
      [] data = "stt-end" -> [ok |-> TRUE, type |-> "event", etype |-> "stt-end", code |-> ""]
      [] data = "run-end" -> [ok |-> TRUE, type |-> "event", etype |-> "run-end", code |-> ""]
      [] data = "error wake-word-timeout" ->
            [ok |-> TRUE, type |-> "event", etype |-> "error", code |-> "wake-word-timeout"]
      [] data = "error stt-no-text-recognized" ->
            [ok |-> TRUE, type |-> "event", etype |-> "error", code |-> "stt-no-text-recognized"]

NewTask(kind, val) == [kind |-> kind, st |-> "pending", val |-> val]
NoMsg == [id |-> 0, type |-> "", data |-> ""]

\* (the event branch as an elif of the audio branch)
EventBranchElif(done) == event_task \in done /\ audio_task \notin done
\* "if event_task in done"
EventBranch(done) == event_task \in done

\* (only run-end ends the loop)
IsTerminalRunEndOnly(ev) == ev.etype = "run-end"
\* (every error ends the loop, whatever its code)
IsTerminalAnyError(ev) == ev.etype \in {"run-end", "error"}
\* the two break conditions after the yield
IsTerminal(ev) ==
    \/ ev.etype = "run-end"
    \/ ev.etype = "error" /\ ev.code # "wake-word-timeout"

\* "for task in pending: task.cancel()": a task that is not done is cancelled
CancelPending(ts, pend) ==
    [t \in DOMAIN ts |->
        IF t \in pend /\ ts[t].st = "pending" THEN [ts[t] EXCEPT !.st = "cancelled"] ELSE ts[t]]

\* (a get that leaves the chunk on the queue)
AsyncQueuePeek(q) == [item |-> Head(q), rest |-> q]
\* asyncio.Queue.get on a non-empty queue
AsyncQueueGet(q) == [item |-> Head(q), rest |-> Tail(q)]

\* the mic thread puts a chunk on the queue (call_soon_threadsafe(put_nowait))
MuxMicPut ==
    /\ cap_n < MaxMuxChunks
    /\ cap_n' = cap_n + 1
    /\ recording_queue' = Append(recording_queue, cap_n + 1)
    /\ UNCHANGED muxVars

\* a message arrives on the websocket
WsArrive ==
    /\ ws_n < MaxMsgs
    /\ \E m \in WsMessages :
          ws_in' = Append(ws_in, [id |-> ws_n + 1, type |-> m.type, data |-> m.data])
    /\ ws_n' = ws_n + 1
    /\ UNCHANGED <<cap_n, recording_queue, handler_id, tasks, audio_task, event_task,
                   pending, mux_pc, mux_event, wire, yielded, decoded, mux_last>>

\* the event loop runs a task of audio.get(): it takes the oldest chunk
GetTaskRun ==
    /\ recording_queue # <<>>
    /\ \E t \in DOMAIN tasks :
          /\ tasks[t].kind = "get"
          /\ tasks[t].st = "pending"
          /\ LET g == AsyncQueueGet(recording_queue)
             IN /\ tasks' = [tasks EXCEPT ![t] = [kind |-> "get", st |-> "done", val |-> g.item]]
                /\ recording_queue' = g.rest
    /\ UNCHANGED <<cap_n, handler_id, ws_in, ws_n, audio_task, event_task, pending,
                   mux_pc, mux_event, wire, yielded, decoded, mux_last>>

\* the event loop runs a task of websocket.receive(): it takes the oldest message
RecvTaskRun ==
    /\ ws_in # <<>>
    /\ \E t \in DOMAIN tasks :
          /\ tasks[t].kind = "recv"
          /\ tasks[t].st = "pending"
          /\ tasks' = [tasks EXCEPT ![t] = [kind |-> "recv", st |-> "done", val |-> Head(ws_in)]]
    /\ ws_in' = Tail(ws_in)
    /\ UNCHANGED <<cap_n, recording_queue, handler_id, ws_n, audio_task, event_task,
                   pending, mux_pc, mux_event, wire, yielded, decoded, mux_last>>

\* (the event loop starts the pending send tasks in any order)
AnyReady(ts, t) == TRUE
\* asyncio starts the tasks in the order of their creation: t is the oldest
\* send task not yet run
FirstReady(ts, t) ==
    \A u \in DOMAIN ts : (ts[u].kind = "send" /\ ts[u].st = "pending") => t <= u

\* the event loop runs a task of websocket.send_bytes(prefix_bytes + audio_chunk);
\* the loop starts the tasks in the order of their creation
SendTaskRun ==
    /\ \E t \in DOMAIN tasks :
          /\ tasks[t].kind = "send"
          /\ tasks[t].st = "pending"
          /\ FirstReady(tasks, t)
          /\ tasks' = [tasks EXCEPT ![t].st = "done"]
          /\ wire' = Append(wire, [prefix |-> handler_id, chunk |-> tasks[t].val])
    /\ UNCHANGED <<cap_n, recording_queue, handler_id, ws_in, ws_n, audio_task, event_task,
                   pending, mux_pc, mux_event, yielded, decoded, mux_last>>

\* asyncio.wait returns and the loop body runs up to the next suspension
\* (the next asyncio.wait, the yield, or an exception)
MuxPass ==
    /\ mux_pc = "wait"
    /\ \E t \in pending : tasks[t].st = "done"
    /\ LET done == {t \in pending : tasks[t].st = "done"}
           pend1 == pending \ done
           audio == audio_task \in done
           n == Len(tasks)
           \* the audio branch: a send task and the next get task
           tasks2 == IF audio
                     THEN tasks \o <<NewTask("send", tasks[audio_task].val), NewTask("get", 0)>>
                     ELSE tasks
           pend2 == IF audio THEN pend1 \cup {n + 1, n + 2} ELSE pend1
           event == EventBranch(done)
           msg == IF event THEN tasks[event_task].val ELSE NoMsg
           text == event /\ msg.type = "TEXT"
           ev == IF text THEN JsonLoads(msg.data) ELSE JsonLoads("not json")
           isevent == text /\ ev.ok /\ ev.type = "event"
       IN /\ tasks' = tasks2
          /\ pending' = pend2
          /\ audio_task' = IF audio THEN n + 2 ELSE audio_task
          /\ decoded' = IF text THEN Append(decoded, msg.id) ELSE decoded
          /\ yielded' = IF isevent THEN Append(yielded, msg.id) ELSE yielded
          /\ mux_event' = IF isevent
                          THEN [id |-> msg.id, etype |-> ev.etype, code |-> ev.code]
                          ELSE mux_event
          /\ mux_pc' = IF text /\ ~ev.ok THEN "raised"
                       ELSE IF isevent THEN "yield"
                       ELSE "wait"
          /\ mux_last' = [both |-> audio_task \in done /\ event_task \in done,
                          chunk |-> IF audio THEN tasks[audio_task].val ELSE 0,
                          msg |-> msg.id]
    /\ UNCHANGED <<cap_n, recording_queue, handler_id, ws_in, ws_n, event_task, wire>>

\* the caller asks for the next event: the generator resumes after the yield
MuxResume ==
    /\ mux_pc = "yield"
    /\ IF IsTerminal(mux_event)
       THEN /\ tasks' = CancelPending(tasks, pending)
            /\ mux_pc' = "ended"
            /\ UNCHANGED <<event_task, pending>>
       ELSE /\ tasks' = Append(tasks, NewTask("recv", NoMsg))
            /\ event_task' = Len(tasks) + 1
            /\ pending' = pending \cup {Len(tasks) + 1}
            /\ mux_pc' = "wait"
    /\ UNCHANGED <<cap_n, recording_queue, handler_id, ws_in, ws_n, audio_task,
                   mux_event, wire, yielded, decoded, mux_last>>

\* the caller abandons the generator at the yield (aclose): GeneratorExit
\* is raised at the yield
MuxClose ==
    /\ mux_pc = "yield"
    /\ mux_pc' = "closed"
    /\ UNCHANGED <<cap_n, recording_queue, handler_id, ws_in, ws_n, tasks, audio_task,
                   event_task, pending, mux_event, wire, yielded, decoded, mux_last>>

(***************************************************************************)
(* __main__.py: main(), with the mic thread reduced to its reads and       *)
(* writes of state.mic and state.is_running                                *)
(***************************************************************************)
\* the types of the two messages _authenticate receives
HandshakeMsgs == {"auth_required", "auth_ok", "auth_invalid"}
\* _authenticate: do both assertions pass
Authenticate(m1, m2) == m1 = "auth_required" /\ m2 = "auth_ok"

\* args.awake_sound, args.done_sound and the url of a tts-end event
AwakeSound == "A"
DoneSound == "B"
TtsUrls == {"B", BadMedia, "none"}
\* the event types main() tells apart ("error-timeout": an error event with
\* code wake-word-timeout, after which stream() goes on; "other": any other)
EventTypes == {"wake_word-end", "stt-end", "tts-end", "run-end", "error",
               "error-timeout", "other"}
RunEnding == {"run-end", "error", "error-timeout"}
\* the server reports the stages of a run in order (wake word, speech to
\* text, text to speech, end of the run); an error can come at any stage and
\* is followed by run-end only
EventStage(e) ==
    CASE e = "wake_word-end" -> 1
      [] e = "stt-end" -> 2
      [] e = "tts-end" -> 3
      [] e \in {"error", "error-timeout"} -> 4
      [] e = "run-end" -> 5
      [] OTHER -> 0

\* the body of the async for: the value assigned to state.mic ("none": no
\* assignment) and the items put on the playback queue, in order
OnEvent(e, url, args) ==
    CASE e = "wake_word-end" ->
            [mic |-> IF args.awake THEN NOT_RECORDING ELSE "none",
             items |-> (IF args.duck THEN <<Duck(TRUE)>> ELSE <<>>)
                       \o (IF args.awake
                           THEN <<PlayMedia(AwakeSound), SetMicState(RECORDING)>>
                           ELSE <<>>)]
      [] e = "stt-end" ->
            [mic |-> NOT_RECORDING,
             items |-> IF args.done THEN <<PlayMedia(DoneSound)>> ELSE <<>>]
      [] e = "tts-end" ->
            [mic |-> "none",
             items |-> IF url # "none" THEN <<PlayMedia(url)>> ELSE <<>>]
      [] e \in RunEnding ->
            [mic |-> "none",
             items |-> <<SetMicState(WAIT_FOR_VAD)>>
                       \o (IF args.duck THEN <<Duck(FALSE)>> ELSE <<>>)]
      [] OTHER -> [mic |-> "none", items |-> <<>>]

\* put_nowait of the items, in order, each tagged with the number of its put
PutAll(q, items, n) == q \o [i \in 1..Len(items) |-> [item |-> items[i], n |-> n + i]]

ProcessAlive == pb_pc # "crashed"

\* the top of the while loop up to the end of the handshake of stream(); a
\* failed assertion of _authenticate reaches the except Exception of main()
MainConnect ==
    /\ ProcessAlive
    /\ main_pc = "loop"
    /\ is_running
    /\ main_runs < MaxRuns
    /\ main_args.vad => ready_to_stream
    /\ ready_to_stream' = IF main_args.vad THEN FALSE ELSE ready_to_stream
    /\ main_runs' = main_runs + 1
    /\ cur_plays' = {}
    /\ run_stage' = 0
    /\ \E m1, m2 \in HandshakeMsgs :
          IF Authenticate(m1, m2)
          THEN /\ main_pc' = "run"
               /\ UNCHANGED <<mic, hs_failed, stt_mark, ret_mark>>
          ELSE /\ main_pc' = "loop"
               /\ mic' = WAIT_FOR_VAD
               /\ hs_failed' = TRUE
               /\ stt_mark' = -1
               /\ ret_mark' = -1
    /\ UNCHANGED <<vad_prob, pbVars, paVars, main_args, is_running, main_events,
                   cap_avail, mic_seen, ret_plays, mic_pc>>

\* stream() yields an event and the body of the async for handles it
MainEvent ==
    /\ ProcessAlive
    /\ main_pc = "run"
    /\ main_events < MaxEvents
    /\ \E e \in EventTypes : \E url \in TtsUrls :
          /\ e # "tts-end" => url = "none"
          /\ e # "other" => EventStage(e) > run_stage
          /\ run_stage' = IF e = "other" THEN run_stage ELSE EventStage(e)
          /\ LET h == OnEvent(e, url, main_args)
                 n == Len(pb_submitted)
                 plays == {n + i : i \in {j \in 1..Len(h.items) : h.items[j].kind = "PlayMedia"}}
             IN /\ mic' = IF h.mic = "none" THEN mic ELSE h.mic
                /\ playback_queue' = PutAll(playback_queue, h.items, n)
                /\ pb_submitted' = pb_submitted \o h.items
                /\ main_pc' = IF e \in {"run-end", "error"} THEN "loop" ELSE "run"
                /\ stt_mark' = IF e = "stt-end" THEN n ELSE stt_mark
                /\ ret_mark' = IF e \in RunEnding
                               THEN (IF mic = WAIT_FOR_VAD THEN -1 ELSE n)
                               ELSE ret_mark
                /\ ret_plays' = IF e \in RunEnding THEN cur_plays ELSE ret_plays
                /\ cur_plays' = cur_plays \cup plays
    /\ main_events' = main_events + 1
    /\ UNCHANGED <<vad_prob, pb_pc, pb_item, pb_written, media_len, pb_log, paVars,
                   main_args, is_running, main_runs, cap_avail, mic_seen, hs_failed,
                   ready_to_stream, mic_pc>>

\* stream() raises inside the run (the connection is lost): except Exception
MainException ==
    /\ ProcessAlive
    /\ main_pc = "run"
    /\ mic' = WAIT_FOR_VAD
    /\ main_pc' = "loop"
    /\ stt_mark' = -1
    /\ ret_mark' = -1
    /\ UNCHANGED <<vad_prob, pbVars, paVars, main_args, is_running, main_runs,
                   main_events, cap_avail, mic_seen, hs_failed, cur_plays, ret_plays,
                   ready_to_stream, mic_pc, run_stage>>

\* main() is cancelled or interrupted: the finally block up to mic_thread.join()
MainShutdown ==
    /\ ProcessAlive
    /\ main_pc \in {"loop", "run"}
    /\ is_running' = FALSE
    /\ main_pc' = "join"
    /\ stt_mark' = -1
    /\ UNCHANGED <<mic, vad_prob, pbVars, paVars, main_args, main_runs, main_events,
                   cap_avail, mic_seen, hs_failed, ret_mark, cur_plays, ret_plays,
                   ready_to_stream, mic_pc, run_stage>>

\* mic_thread.join() returns: the exit request is put on the playback queue
MainJoined ==
    /\ ProcessAlive
    /\ main_pc = "join"
    /\ mic_pc = "stopped"
    /\ playback_queue' = PutAll(playback_queue, <<None>>, Len(pb_submitted))
    /\ pb_submitted' = Append(pb_submitted, None)
    /\ main_pc' = "ended"
    /\ UNCHANGED <<mic, vad_prob, pb_pc, pb_item, pb_written, media_len, pb_log, paVars,
                   main_args, is_running, main_runs, main_events, cap_avail, mic_seen,
                   hs_failed, stt_mark, ret_mark, cur_plays, ret_plays,
                   ready_to_stream, mic_pc, run_stage>>

\* the capture source has the next chunk
CaptureChunk ==
    /\ ProcessAlive
    /\ mic_pc # "stopped"
    /\ ~cap_avail
    /\ cap_avail' = TRUE
    /\ UNCHANGED <<stateVars, pbVars, paVars, main_pc, main_args, is_running, main_runs,
                   main_events, mic_seen, hs_failed, stt_mark, ret_mark, cur_plays,
                   ret_plays, ready_to_stream, mic_pc, run_stage>>

\* the mic thread takes a chunk: __ensure_running_pipe checks is_running,
\* then the stage of the current mic state (gate or skip stage) reads
\* state.mic and decides whether it advances it
MainMicChunk ==
    /\ ProcessAlive
    /\ mic_pc = "wait"
    /\ cap_avail
    /\ cap_avail' = FALSE
    /\ IF ~is_running
       THEN mic_pc' = "stopped" /\ UNCHANGED mic_seen
       ELSE IF mic \in {WAIT_FOR_VAD, WAIT_FOR_WAKE_WORD}
            THEN \E trig \in BOOLEAN :
                    /\ (mic = WAIT_FOR_VAD /\ ~main_args.vad) => trig
                    /\ IF trig
                       THEN mic_pc' = "armed" /\ mic_seen' = MicNext(mic)
                       ELSE UNCHANGED <<mic_pc, mic_seen>>
            ELSE UNCHANGED <<mic_pc, mic_seen>>
    /\ UNCHANGED <<stateVars, pbVars, paVars, main_pc, main_args, is_running, main_runs,
                   main_events, hs_failed, stt_mark, ret_mark, cur_plays, ret_plays,
                   ready_to_stream, run_stage>>

\* the stage assigns state.mic (and sets the event when it reaches RECORDING)
MainMicWrite ==
    /\ ProcessAlive
    /\ mic_pc = "armed"
    /\ mic' = mic_seen
    /\ mic_seen' = "none"
    /\ mic_pc' = "wait"
    /\ ready_to_stream' = IF mic_seen = RECORDING THEN TRUE ELSE ready_to_stream
    /\ UNCHANGED <<vad_prob, pbVars, paVars, main_pc, main_args, is_running, main_runs,
                   main_events, cap_avail, hs_failed, stt_mark, ret_mark, cur_plays,
                   ret_plays, run_stage>>

(***************************************************************************)
(* mic_process.py: the pipeline mic_thread_entry assembles, stage by stage *)
(* (the source, __ensure_running_pipe, the scorer, _vad_pipe or the skip   *)
(* stage, the wake word stage or the skip stage, the put)                  *)
(***************************************************************************)
\* for buffered_chunk in vad_chunk_buffer: the chunks from the oldest on
DequeIter(buf) == buf

\* one iteration of the loop of _wyoming_wake_word_pipe: state.mic and the
\* event after it, and whether the chunk is yielded (it is handed to the
\* detector otherwise)
\* (the flag alone triggers, whatever state.mic is)
WakeTriggerAnyState(m, detected) == detected
\* if state.mic == MicState.WAIT_FOR_WAKE_WORD and wake.detected
WakeTrigger(m, detected) == m = WAIT_FOR_WAKE_WORD /\ detected

\* (the stage yields every chunk)
WakeHandsOverNever(m) == FALSE
\* if state.mic == MicState.WAIT_FOR_WAKE_WORD: wake.process_chunk(ts_chunk)
WakeHandsOver(m) == m = WAIT_FOR_WAKE_WORD

wyoming_wake_word_pipe(m, ev, detected) ==
    LET woken == WakeTrigger(m, detected)
        m1 == IF woken THEN RECORDING ELSE m
    IN [mic |-> m1, ev |-> IF woken THEN TRUE ELSE ev, yield |-> ~WakeHandsOver(m1)]

\* the source has a chunk: __ensure_running_pipe, then the scorer
PipeCapture ==
    /\ ProcessAlive
    /\ mic_pc = "capture"
    /\ cap_n < MaxPipeChunks
    /\ cap_n' = cap_n + 1
    /\ IF ~is_running
       THEN mic_pc' = "stopped" /\ UNCHANGED vad_prob
       ELSE /\ mic_pc' = "vad"
            /\ IF main_args.vad
               THEN \E p \in 0..MaxProb : vad_prob' = ScorerWrite(mic, vad_prob, p)
               ELSE UNCHANGED vad_prob
    /\ UNCHANGED <<mic, vad_cfg, vad_activation, vad_chunk_buffer, ready_to_stream,
                   recording_queue, pbVars, paVars, mainVars, pipeVars>>

\* the chunk enters _vad_pipe (args.vad != "disabled") or the stage that
\* skips WAIT_FOR_VAD
PipeVadStage ==
    /\ ProcessAlive
    /\ mic_pc = "vad"
    /\ LET r == IF main_args.vad
                THEN vad_pipe(mic, vad_prob, vad_activation, vad_chunk_buffer, cap_n, vad_cfg)
                ELSE [mic |-> skip_mic_state_pipe(mic, ready_to_stream, WAIT_FOR_VAD, FALSE).mic,
                      vad_prob |-> vad_prob, act |-> vad_activation,
                      buf |-> vad_chunk_buffer, out |-> <<cap_n>>]
       IN /\ mic' = r.mic
          /\ vad_prob' = r.vad_prob
          /\ vad_activation' = r.act
          /\ vad_chunk_buffer' = r.buf
          /\ pipe_flush' = DequeIter(r.out)
          /\ mic_pc' = IF r.out = <<>> THEN "capture" ELSE "wake"
    /\ UNCHANGED <<cap_n, vad_cfg, ready_to_stream, recording_queue, pbVars, paVars,
                   mainVars, pipe_wake>>

\* the next chunk the VAD stage yields enters _wyoming_wake_word_pipe
\* (args.wake_word == "wyoming") or the stage that skips WAIT_FOR_WAKE_WORD;
\* a chunk the stage yields is put on recording_queue by mic_thread_entry
\* (recording_queue keeps every chunk put: nothing takes chunks here)
PipeWakeStage ==
    /\ ProcessAlive
    /\ mic_pc = "wake"
    /\ \E detected \in BOOLEAN :
          /\ ~pipe_wake => ~detected
          /\ LET s == skip_mic_state_pipe(mic, ready_to_stream, WAIT_FOR_WAKE_WORD, TRUE)
                 r == IF pipe_wake
                      THEN wyoming_wake_word_pipe(mic, ready_to_stream, detected)
                      ELSE [mic |-> s.mic, ev |-> s.ev, yield |-> TRUE]
             IN /\ mic' = r.mic
                /\ ready_to_stream' = r.ev
                /\ recording_queue' = IF r.yield
                                      THEN Append(recording_queue, Head(pipe_flush))
                                      ELSE recording_queue
    /\ pipe_flush' = Tail(pipe_flush)
    /\ mic_pc' = IF Tail(pipe_flush) = <<>> THEN "capture" ELSE "wake"
    /\ UNCHANGED <<vad_prob, cap_n, vad_cfg, vad_activation, vad_chunk_buffer, pbVars,
                   paVars, mainVars, pipe_wake>>

(***************************************************************************)
(* mic_process.py: _wyoming_wake_word_pipe statement by statement, with    *)
(* the detector of wake_word.py and the other writers of state.mic         *)
(***************************************************************************)
\* for ts_chunk in mic_input, then the first if: state.mic and wake.detected
\* are read
WakeCheck ==
    /\ mic_pc = "wake_check"
    /\ cap_n < MaxWakeChunks
    /\ cap_n' = cap_n + 1
    /\ mic_pc' = IF WakeTrigger(mic, wake_detected) THEN "wake_woken" ELSE "wake_dispose"
    /\ UNCHANGED <<stateVars, mic_writes, ready_to_stream, recording_queue, wakeVars, procVars, detVars>>

\* the body of the first if: wake.reset(), state.mic = RECORDING, event.set()
WakeWoken ==
    /\ mic_pc = "wake_woken"
    /\ wake_detected' = FALSE
    /\ wake_queue' = <<>>
    /\ mic' = RECORDING
    /\ ready_to_stream' = TRUE
    /\ wake_woke_at' = cap_n
    /\ mic_pc' = "wake_dispose"
    /\ UNCHANGED <<vad_prob, cap_n, mic_writes, recording_queue, wake_det_at>>

\* the second if: state.mic is read again; the chunk goes to the detector
\* or is yielded, and a yielded chunk is put on recording_queue
WakeDispose ==
    /\ mic_pc = "wake_dispose"
    /\ IF WakeHandsOver(mic)
       THEN /\ wake_queue' = Append(wake_queue, cap_n)
            /\ UNCHANGED recording_queue
       ELSE /\ recording_queue' = Append(recording_queue, cap_n)
            /\ UNCHANGED wake_queue
    /\ mic_pc' = "wake_check"
    /\ UNCHANGED <<stateVars, cap_n, mic_writes, ready_to_stream, wake_detected,
                   wake_det_at, wake_woke_at>>

\* _run_wyoming, in the event loop: the server the chunks were sent to
\* reports a detection of the expected wake word
WakeDetect ==
    /\ wake_queue # <<>>
    /\ ~wake_detected
    /\ wake_detected' = TRUE
    /\ wake_det_at' = cap_n
    /\ UNCHANGED <<stateVars, cap_n, mic_pc, mic_writes, ready_to_stream, recording_queue,
                   wake_queue, wake_woke_at>>

\* another writer assigns state.mic (the stage before this one, main(),
\* the playback thread executing SetMicState)
WakeMicWrittenElsewhere ==
    /\ mic_writes < MaxMicWrites
    /\ \E m \in MicState : mic' = m
    /\ mic' # mic
    /\ mic_writes' = mic_writes + 1
    /\ UNCHANGED <<vad_prob, cap_n, mic_pc, ready_to_stream, recording_queue, wakeVars, procVars, detVars>>

(***************************************************************************)
(* __main__.py: _mic_proc, the capture loop main() starts as the mic       *)
(* thread                                                                  *)
(***************************************************************************)
\* the values of state.MicState
MicState3 == {NOT_RECORDING, WAIT_FOR_VAD, RECORDING}

\* (every chunk is put unless the loop is waiting for speech)
MicProcPutsUnlessWaiting(m) == m # WAIT_FOR_VAD
\* if state.mic == MicState.RECORDING
MicProcPuts(m) == m = RECORDING

\* for ts_chunk in mic_stream: if not state.is_running: break
MicProcCapture ==
    /\ ProcessAlive
    /\ mic_pc = "proc_capture"
    /\ cap_n < MaxProcChunks
    /\ cap_n' = cap_n + 1
    /\ mic_pc' = IF is_running THEN "proc_gate" ELSE "stopped"
    /\ mic_iter' = IF is_running
                   THEN [chunk |-> cap_n + 1, gate |-> "none", put |-> "none"]
                   ELSE mic_iter
    /\ UNCHANGED <<stateVars, vad_cfg, vad_activation, vad_chunk_buffer, ready_to_stream,
                   recording_queue>>

\* if state.mic == MicState.WAIT_FOR_VAD: without VAD state.mic becomes
\* RECORDING; with VAD the chunk is scored and counted, and the loop either
\* triggers (RECORDING, speech_detected set) or buffers the chunk
MicProcGate ==
    /\ ProcessAlive
    /\ mic_pc = "proc_gate"
    /\ IF mic # WAIT_FOR_VAD
       THEN UNCHANGED <<mic, vad_activation, vad_chunk_buffer, ready_to_stream>>
       ELSE IF ~main_args.vad
            THEN /\ mic' = RECORDING
                 /\ UNCHANGED <<vad_activation, vad_chunk_buffer, ready_to_stream>>
            ELSE \E p \in 0..MaxProb :
                    LET act1 == VadCount(vad_activation, p, vad_cfg.thr)
                    IN IF VadTriggered(act1, vad_cfg.lvl)
                       THEN /\ mic' = RECORDING
                            /\ ready_to_stream' = TRUE
                            /\ vad_activation' = 0
                            /\ UNCHANGED vad_chunk_buffer
                       ELSE /\ vad_chunk_buffer' = DequeAppend(vad_chunk_buffer, cap_n, vad_cfg.n)
                            /\ vad_activation' = act1
                            /\ UNCHANGED <<mic, ready_to_stream>>
    /\ mic_iter' = [mic_iter EXCEPT !.gate = mic]
    /\ mic_pc' = "proc_put"
    /\ UNCHANGED <<vad_prob, cap_n, vad_cfg, recording_queue>>

\* if state.mic == MicState.RECORDING: the buffered chunks, then the chunk,
\* are put on the queue and the buffer is cleared
MicProcPut ==
    /\ ProcessAlive
    /\ mic_pc = "proc_put"
    /\ IF MicProcPuts(mic)
       THEN /\ recording_queue' = recording_queue \o DequeIter(vad_chunk_buffer) \o <<cap_n>>
            /\ vad_chunk_buffer' = <<>>
       ELSE UNCHANGED <<recording_queue, vad_chunk_buffer>>
    /\ mic_iter' = [mic_iter EXCEPT !.put = mic]
    /\ mic_pc' = "proc_capture"
    /\ UNCHANGED <<stateVars, cap_n, vad_cfg, vad_activation, ready_to_stream>>

\* main() or the playback thread assigns state.mic
MicProcMicWrittenElsewhere ==
    /\ mic_writes < MaxMicWrites
    /\ \E m \in MicState3 : mic' = m
    /\ mic' # mic
    /\ mic_writes' = mic_writes + 1
    /\ UNCHANGED <<vad_prob, cap_n, mic_pc, vad_cfg, vad_activation, vad_chunk_buffer,
                   ready_to_stream, recording_queue, mic_iter>>

(***************************************************************************)
(* wake_word.py: WyomingWakeWordDetector                                   *)
(***************************************************************************)
\* the events client.read_event() returns: a Detection of the expected wake
\* word, a Detection of another name, an event of another type, None (the
\* connection is lost)
WyomingEvents == {"detection", "other_name", "other", "lost"}

\* os._exit(-1) in the except Exception of _run_wyoming
DetAlive == \A t \in DOMAIN det_tasks : det_tasks[t].pc # "crashed"

\* asyncio.create_task(self._run_wyoming())
NewRunWyoming ==
    [pc |-> "new", q |-> 0, audio |-> "none", got |-> 0, ev |-> "none", taken |-> <<>>]

\* asyncio.create_task(self._queue.get()): the task reads the Queue object
\* self._queue names at that moment; with self._queue None the expression
\* raises AttributeError
ArmAudio(task, queue) ==
    IF queue = 0
    THEN [task EXCEPT !.pc = "crashed"]
    ELSE [task EXCEPT !.pc = "run", !.q = queue, !.audio = "pending", !.got = 0]

\* process_chunk(ts_chunk): a Queue is created when there is none, a task
\* when there is none, and the chunk is put on self._queue
ProcessChunk ==
    /\ DetAlive
    /\ Len(det_calls) < MaxDetChunks
    /\ LET c == Len(det_calls) + 1
           newq == det_queue = 0
           newtask == det_task = 0
           q1 == IF newq THEN Len(det_queues) + 1 ELSE det_queue
           queues1 == IF newq THEN Append(det_queues, <<>>) ELSE det_queues
       IN /\ det_queue' = q1
          /\ det_queues' = [queues1 EXCEPT ![q1] = Append(@, c)]
          /\ det_task' = IF newtask THEN Len(det_tasks) + 1 ELSE det_task
          /\ det_tasks' = IF newtask THEN Append(det_tasks, NewRunWyoming) ELSE det_tasks
          /\ det_calls' = Append(det_calls, [chunk |-> c, after_reset |-> det_reset,
                                             newq |-> newq, newtask |-> newtask])
    /\ det_reset' = FALSE
    /\ UNCHANGED <<wake_detected, det_sent, det_events>>

\* reset(), which the wake word stage calls when it has seen detected
DetectorReset ==
    /\ DetAlive
    /\ wake_detected
    /\ wake_detected' = FALSE
    /\ det_queue' = 0
    /\ det_reset' = TRUE
    /\ UNCHANGED <<det_task, det_queues, det_tasks, det_sent, det_calls, det_events>>

\* _run_wyoming starts: assert self._queue is not None, then the connection
\* is opened and Detect and AudioStart are written
RunWyomingStart ==
    /\ DetAlive
    /\ \E t \in DOMAIN det_tasks :
          /\ det_tasks[t].pc = "new"
          /\ det_tasks' = [det_tasks EXCEPT ![t].pc = IF det_queue = 0 THEN "crashed"
                                                      ELSE "connected"]
    /\ UNCHANGED <<wake_detected, det_queue, det_task, det_queues, det_sent, det_calls,
                   det_events, det_reset>>

\* audio_task and wake_task are created
RunWyomingArm ==
    /\ DetAlive
    /\ \E t \in DOMAIN det_tasks :
          /\ det_tasks[t].pc = "connected"
          /\ det_tasks' = [det_tasks EXCEPT ![t] = ArmAudio(@, det_queue)]
    /\ UNCHANGED <<wake_detected, det_queue, det_task, det_queues, det_sent, det_calls,
                   det_events, det_reset>>

\* the event loop runs the audio_task: Queue.get takes the oldest chunk (the
\* audio_task left pending by a break is not cancelled)
RunWyomingGet ==
    /\ DetAlive
    /\ \E t \in DOMAIN det_tasks :
          LET T == det_tasks[t]
          IN /\ T.pc \in {"run", "closing", "done"}
             /\ T.audio = "pending"
             /\ det_queues[T.q] # <<>>
             /\ det_tasks' = [det_tasks EXCEPT ![t].audio = "done",
                                               ![t].got = Head(det_queues[T.q]),
                                               ![t].taken = Append(@, Head(det_queues[T.q]))]
             /\ det_queues' = [det_queues EXCEPT ![T.q] = Tail(@)]
    /\ UNCHANGED <<wake_detected, det_queue, det_task, det_sent, det_calls, det_events,
                   det_reset>>

\* the event loop runs the wake_task: the server has sent an event
RunWyomingRecv ==
    /\ DetAlive
    /\ det_events < MaxDetEvents
    /\ \E t \in DOMAIN det_tasks : \E e \in WyomingEvents :
          /\ det_tasks[t].pc \in {"run", "writing"}
          /\ det_tasks[t].ev = "none"
          /\ det_tasks' = [det_tasks EXCEPT ![t].ev = e]
    /\ det_events' = det_events + 1
    /\ UNCHANGED <<wake_detected, det_queue, det_task, det_queues, det_sent, det_calls,
                   det_reset>>

\* asyncio.wait returns and the loop body runs up to its next await: the
\* wake_task branch first (a detection of the expected name sets _detected
\* and breaks; one of another name re-arms the wake_task and continues; any
\* other event re-arms it; None fails the assert), then the audio_task branch (the chunk is
\* written to the server)
RunWyomingPass ==
    /\ DetAlive
    /\ \E t \in DOMAIN det_tasks :
          LET T == det_tasks[t]
              audio == T.audio = "done"
          IN /\ T.pc = "run"
             /\ audio \/ T.ev # "none"
             /\ CASE T.ev = "detection" ->
                       /\ wake_detected' = TRUE
                       /\ det_tasks' = [det_tasks EXCEPT ![t].pc = "closing", ![t].ev = "none",
                                                         ![t].audio = IF audio THEN "none"
                                                                      ELSE T.audio,
                                                         ![t].got = 0]
                       /\ UNCHANGED det_sent
                  [] T.ev = "other_name" ->
                       /\ det_tasks' = [det_tasks EXCEPT ![t].ev = "none",
                                                         ![t].audio = IF audio THEN "none"
                                                                      ELSE T.audio,
                                                         ![t].got = 0]
                       /\ UNCHANGED <<wake_detected, det_sent>>
                  [] T.ev = "lost" ->
                       /\ det_tasks' = [det_tasks EXCEPT ![t].pc = "crashed"]
                       /\ UNCHANGED <<wake_detected, det_sent>>
                  [] OTHER ->
                       /\ det_tasks' = [det_tasks EXCEPT ![t].ev = "none",
                                                         ![t].pc = IF audio THEN "writing"
                                                                   ELSE "run"]
                       /\ det_sent' = IF audio
                                      THEN Append(det_sent, [task |-> t, chunk |-> T.got])
                                      ELSE det_sent
                       /\ UNCHANGED wake_detected
    /\ UNCHANGED <<det_queue, det_task, det_queues, det_calls, det_events, det_reset>>

\* client.write_event has returned: the next audio_task is created
RunWyomingRearm ==
    /\ DetAlive
    /\ \E t \in DOMAIN det_tasks :
          /\ det_tasks[t].pc = "writing"
          /\ det_tasks' = [det_tasks EXCEPT ![t] = ArmAudio(@, det_queue)]
    /\ UNCHANGED <<wake_detected, det_queue, det_task, det_queues, det_sent, det_calls,
                   det_events, det_reset>>

\* after the break the connection is closed (an await), then the finally
\* block: self._queue = None, self._run_wyoming_task = None
RunWyomingFinish ==
    /\ DetAlive
    /\ \E t \in DOMAIN det_tasks :
          /\ det_tasks[t].pc = "closing"
          /\ det_tasks' = [det_tasks EXCEPT ![t].pc = "done"]
    /\ det_queue' = 0
    /\ det_task' = 0
    /\ UNCHANGED <<wake_detected, det_queues, det_sent, det_calls, det_events, det_reset>>

(***************************************************************************)
(* ha_connection.py: HAConnection                                          *)
(***************************************************************************)
WsTypes == {"TEXT", "BINARY", "ERROR"}

\* self._message_id += 1
NextMessageId(n) == n + 1

\* self._message_queues[id] = Queue()
Register(queues, id) ==
    [i \in DOMAIN queues \cup {id} |-> IF i = id THEN <<>> ELSE queues[i]]
\* del self._message_queues[id]
Unregister(queues, id) == [i \in DOMAIN queues \ {id} |-> queues[i]]

\* (the message goes to the queue registered first)
DispatchFirst(queues, message) ==
    IF DOMAIN queues # {}
    THEN LET id == CHOOSE i \in DOMAIN queues : \A j \in DOMAIN queues : i <= j
         IN [queues EXCEPT ![id] = Append(@, message)]
    ELSE queues
\* __receive_loop: queue = self._message_queues.get(message["id"]); the
\* message is put on it, or dropped with a warning when there is none
Dispatch(queues, message) ==
    IF message.id \in DOMAIN queues
    THEN [queues EXCEPT ![message.id] = Append(@, message)]
    ELSE queues

\* send_and_receive(message) or send_and_receive_many(message) up to its
\* first await queue.get(): the id is taken, the queue registered, the
\* request sent
HaSend ==
    /\ ha_alive
    /\ Len(ha_calls) < MaxCalls
    /\ \E kind \in {"one", "many"} :
          ha_calls' = Append(ha_calls, [kind |-> kind, id |-> ha_message_id,
                                        pc |-> "waiting", got |-> <<>>])
    /\ ha_queues' = Register(ha_queues, ha_message_id)
    /\ ha_message_id' = NextMessageId(ha_message_id)
    /\ UNCHANGED <<ha_n, ha_alive, ha_arrived>>

\* __receive_loop: the websocket delivers a message, with whatever id the
\* server put in it
HaReceive ==
    /\ ha_alive
    /\ ha_n < MaxResponses
    /\ ha_n' = ha_n + 1
    /\ \E type \in WsTypes : \E id \in 1..(MaxCalls + 1) :
          LET message == [n |-> ha_n + 1, id |-> id]
          IN /\ ha_arrived' = Append(ha_arrived, [n |-> ha_n + 1, id |-> id, type |-> type,
                                                  calls |-> Len(ha_calls)])
             /\ ha_alive' = (type # "ERROR")
             /\ ha_queues' = IF type = "TEXT" THEN Dispatch(ha_queues, message)
                             ELSE ha_queues
    /\ UNCHANGED <<ha_message_id, ha_calls>>

\* send_and_receive_many: await queue.get() returns a response, which is
\* yielded (nothing puts None on a queue)
HaGet ==
    /\ ha_alive
    /\ \E k \in 1..Len(ha_calls) :
          LET c == ha_calls[k]
          IN /\ c.pc = "waiting"
             /\ ha_queues[c.id] # <<>>
             /\ ha_calls' = [ha_calls EXCEPT ![k].pc = "yielded",
                                             ![k].got = Append(@, Head(ha_queues[c.id]))]
             /\ ha_queues' = [ha_queues EXCEPT ![c.id] = Tail(@)]
    /\ UNCHANGED <<ha_message_id, ha_n, ha_alive, ha_arrived>>

\* the consumer of send_and_receive_many asks for the next response
HaResume ==
    /\ ha_alive
    /\ \E k \in 1..Len(ha_calls) :
          /\ ha_calls[k].kind = "many"
          /\ ha_calls[k].pc = "yielded"
          /\ ha_calls' = [ha_calls EXCEPT ![k].pc = "waiting"]
    /\ UNCHANGED <<ha_message_id, ha_queues, ha_n, ha_alive, ha_arrived>>

\* the generator is closed (by its consumer, by the finalization of the
\* generator send_and_receive left at its yield, or by the cancellation of
\* the task awaiting it): the finally block deletes the queue
HaClose ==
    /\ ha_alive
    /\ \E k \in 1..Len(ha_calls) :
          /\ ha_calls[k].pc \in {"waiting", "yielded"}
          /\ ha_calls' = [ha_calls EXCEPT ![k].pc = "closed"]
          /\ ha_queues' = Unregister(ha_queues, ha_calls[k].id)
    /\ UNCHANGED <<ha_message_id, ha_n, ha_alive, ha_arrived>>

(***************************************************************************)
(* Initial states and specifications                                       *)
(***************************************************************************)
VolSamples == {-32768, -20000, -1, 0, 1, 3, 20000, 32767}
VolMultipliers == {<<2, 1>>, <<1, 2>>, <<3, 2>>, <<1, 4>>, <<0, 1>>, <<-1, 1>>, <<3, 1>>}

VolIdle ==
    /\ vol_chunk = <<>>
    /\ vol_mult = <<1, 1>>
    /\ vol_out = <<>>
    /\ vol_pc = "out"

\* main(): state = State(mic=MicState.WAIT_FOR_VAD)
StateInit ==
    /\ mic = WAIT_FOR_VAD
    /\ vad_prob = 0

MicThreadIdle ==
    /\ cap_n = 0
    /\ mic_pc = "off"
    /\ mic_writes = 0

GateInit ==
    /\ vad_activation = 0
    /\ vad_chunk_buffer = <<>>
    /\ vad_seen = <<>>
    /\ vad_hist = <<>>
    /\ vad_last = [chunk |-> 0, waiting |-> FALSE, trig |-> FALSE, seen |-> <<>>,
                   out |-> <<>>, hist |-> <<>>]
    /\ vad_lost = {}
GateIdle ==
    /\ vad_cfg = [thr |-> 1, lvl |-> 1, n |-> 1]
    /\ GateInit

SkipInit ==
    /\ ready_to_stream = FALSE
    /\ recording_queue = <<>>
    /\ skip_pass = [chunk |-> 0, entry |-> NOT_RECORDING, clean |-> FALSE]

PlaybackInit ==
    /\ playback_queue = <<>>
    /\ pb_pc = "get"
    /\ pb_item = [media |-> "A", id |-> 0]
    /\ pb_written = 0
    /\ pb_submitted = <<>>
    /\ pb_log = <<>>
PlaybackIdle ==
    /\ PlaybackInit
    /\ media_len = [m \in Media |-> 1]

\* with pulsectl connected: nothing is ducked
PulseInit ==
    /\ ducked = <<>>
    /\ duck_n = 0
    /\ duck_run = <<>>
    /\ duck_prev = "none"
    /\ duck_snap = [i \in StreamIndex |-> <<0, 0>>]
    /\ vol_changes = 0
PulseIdle ==
    /\ PulseInit
    /\ streams = [i \in StreamIndex |->
                    [sink |-> StreamTable[i].sink, name |-> StreamTable[i].name,
                     vol |-> <<MaxLevel, MaxLevel>>]]
    /\ ducking_volume = 0

MuxIdle ==
    /\ handler_id = 0
    /\ ws_in = <<>>
    /\ ws_n = 0
    /\ tasks = <<>>
    /\ audio_task = 0
    /\ event_task = 0
    /\ pending = {}
    /\ mux_pc = "ended"
    /\ mux_event = [id |-> 0, etype |-> "", code |-> ""]
    /\ wire = <<>>
    /\ yielded = <<>>
    /\ decoded = <<>>
    /\ mux_last = [both |-> FALSE, chunk |-> 0, msg |-> 0]

MainInit ==
    /\ main_pc = "loop"
    /\ is_running = TRUE
    /\ main_runs = 0
    /\ main_events = 0
    /\ cap_avail = FALSE
    /\ mic_seen = "none"
    /\ hs_failed = FALSE
    /\ stt_mark = -1
    /\ ret_mark = -1
    /\ cur_plays = {}
    /\ ret_plays = {}
    /\ run_stage = 0
MainIdle ==
    /\ MainInit
    /\ main_args = [awake |-> FALSE, done |-> FALSE, duck |-> FALSE, vad |-> FALSE]

PipeIdle ==
    /\ pipe_wake = FALSE
    /\ pipe_flush = <<>>

HaInit ==
    /\ ha_message_id = 1
    /\ ha_queues = [i \in {} |-> <<>>]
    /\ ha_calls = <<>>
    /\ ha_n = 0
    /\ ha_alive = TRUE
    /\ ha_arrived = <<>>
HaIdle == HaInit

\* WyomingWakeWordDetector.__init__: _detected = False, no queue
WakeInit ==
    /\ wake_detected = FALSE
    /\ wake_queue = <<>>
    /\ wake_det_at = 0
    /\ wake_woke_at = 0
WakeIdle == WakeInit

ProcInit == mic_iter = [chunk |-> 0, gate |-> "none", put |-> "none"]
ProcIdle == ProcInit

\* WyomingWakeWordDetector.__init__: no queue, no task
DetInit ==
    /\ det_queue = 0
    /\ det_task = 0
    /\ det_queues = <<>>
    /\ det_tasks = <<>>
    /\ det_sent = <<>>
    /\ det_calls = <<>>
    /\ det_events = 0
    /\ det_reset = FALSE
DetIdle == DetInit

\* the volume stage applied to one chunk
VolumeFrame == <<stateVars, vadVars, skipVars, pbVars, paVars, duckHist, muxVars, mainVars, pipeVars, haVars, wakeVars, procVars, detVars>>
InitVolume ==
    /\ \E len \in 0..MaxVolLen : \E samples \in [1..len -> VolSamples] :
           vol_chunk = EncodeH(samples)
    /\ vol_mult \in VolMultipliers
    /\ vol_out = <<>>
    /\ vol_pc = "in"
    /\ StateInit /\ MicThreadIdle /\ GateIdle /\ SkipInit /\ PlaybackIdle /\ PulseIdle
    /\ MuxIdle /\ MainIdle /\ PipeIdle /\ HaIdle /\ WakeIdle /\ ProcIdle /\ DetIdle
NextVolume == VolumePipe /\ UNCHANGED VolumeFrame
SpecVolume == InitVolume /\ [][NextVolume]_vars

\* the scorer and the VAD gate in the mic thread; state.mic is also
\* written by the other threads
VadFrame == <<volVars, skipVars, pbVars, paVars, duckHist, muxVars, mainVars, pipeVars, haVars, wakeVars, procVars, detVars>>
InitVad ==
    /\ VolIdle /\ StateInit /\ SkipInit /\ PlaybackIdle /\ PulseIdle /\ MuxIdle /\ MainIdle /\ PipeIdle /\ HaIdle /\ WakeIdle /\ ProcIdle /\ DetIdle
    /\ cap_n = 0
    /\ mic_pc = "score"
    /\ mic_writes = 0
    /\ vad_cfg \in [thr : 1..MaxProb, lvl : 1..MaxTrigger, n : 1..MaxBuf]
    /\ GateInit
NextVad ==
    \/ MicScore /\ UNCHANGED VadFrame
    \/ MicGate /\ UNCHANGED VadFrame
    \/ MicWrittenElsewhere /\ UNCHANGED VadFrame
SpecVad == InitVad /\ [][NextVad]_vars

\* the mic thread with both skip stages; state.mic is also written by the
\* other threads
SkipFrame == <<volVars, vad_cfg, vad_activation, vad_chunk_buffer,
               vad_seen, vad_hist, vad_last, vad_lost, pbVars, paVars, duckHist, muxVars, mainVars, pipeVars, haVars, wakeVars, procVars, detVars>>
InitSkip ==
    /\ VolIdle /\ StateInit /\ GateIdle /\ SkipInit /\ PlaybackIdle /\ PulseIdle /\ MuxIdle /\ MainIdle /\ PipeIdle /\ HaIdle /\ WakeIdle /\ ProcIdle /\ DetIdle
    /\ cap_n = 0
    /\ mic_pc = "skip_vad"
    /\ mic_writes = 0
NextSkip ==
    \/ SkipVadStage /\ UNCHANGED SkipFrame
    \/ SkipWakeStage /\ UNCHANGED SkipFrame
    \/ MicPut /\ UNCHANGED SkipFrame
    \/ SkipMicWrittenElsewhere /\ UNCHANGED SkipFrame
SpecSkip == InitSkip /\ [][NextSkip]_vars

\* the playback thread with the PulseAudio backend, main() putting items
PlaybackFrame == <<volVars, vadVars, skipVars, duckHist, muxVars, mainVars, pipeVars, haVars, wakeVars, procVars, detVars>>
InitPlayback ==
    /\ VolIdle /\ StateInit /\ MicThreadIdle /\ GateIdle /\ SkipInit /\ MuxIdle /\ MainIdle /\ PipeIdle /\ HaIdle /\ WakeIdle /\ ProcIdle /\ DetIdle
    /\ PlaybackInit
    /\ media_len \in [Media -> 0..MaxMediaChunks]
    /\ PulseIdle
NextPlayback ==
    \/ PlaybackPut /\ UNCHANGED PlaybackFrame
    \/ PlaybackPutLate /\ UNCHANGED PlaybackFrame
    \/ PlaybackGet /\ UNCHANGED PlaybackFrame
    \/ PlaybackWrite /\ UNCHANGED PlaybackFrame
    \/ MainSetsMic /\ UNCHANGED PlaybackFrame
SpecPlayback == InitPlayback /\ [][NextPlayback]_vars

\* duck() called by the playback thread, other applications changing volumes
DuckFrame == <<volVars, stateVars, vadVars, skipVars, pbVars, muxVars, mainVars, pipeVars, haVars, wakeVars, procVars, detVars>>
InitDuck ==
    /\ VolIdle /\ StateInit /\ MicThreadIdle /\ GateIdle /\ SkipInit /\ PlaybackIdle
    /\ MuxIdle /\ MainIdle /\ PipeIdle /\ HaIdle /\ WakeIdle /\ ProcIdle /\ DetIdle
    /\ PulseInit
    /\ \E v \in [StreamIndex -> Volumes] :
          /\ \A i \in StreamIndex :
                (StreamTable[i].sink # OurSink \/ StreamTable[i].name = APP_NAME)
                    => v[i] = <<MaxLevel, MaxLevel>>
          /\ streams = [i \in StreamIndex |->
                          [sink |-> StreamTable[i].sink, name |-> StreamTable[i].name,
                           vol |-> v[i]]]
    /\ ducking_volume \in Levels
NextDuck ==
    \/ DuckCall /\ UNCHANGED DuckFrame
    \/ VolumeChangedElsewhere /\ UNCHANGED DuckFrame
SpecDuck == InitDuck /\ [][NextDuck]_vars

\* _audio_to_events from its first asyncio.wait on (audio_task and event_task
\* created), with the mic thread putting chunks and the server sending messages
HandlerIds == {0, 255}
MuxFrame == <<volVars, stateVars, mic_pc, mic_writes, vad_cfg, vad_activation,
              vad_chunk_buffer, vad_seen, vad_hist, vad_last, vad_lost,
              ready_to_stream, skip_pass, pbVars, paVars, duckHist, mainVars, pipeVars, haVars, wakeVars, procVars, detVars>>
InitMux ==
    /\ VolIdle /\ StateInit /\ MicThreadIdle /\ GateIdle /\ SkipInit /\ PlaybackIdle
    /\ PulseIdle /\ MainIdle /\ PipeIdle /\ HaIdle /\ WakeIdle /\ ProcIdle /\ DetIdle
    /\ handler_id \in HandlerIds
    /\ ws_in = <<>>
    /\ ws_n = 0
    /\ tasks = <<NewTask("get", 0), NewTask("recv", NoMsg)>>
    /\ audio_task = 1
    /\ event_task = 2
    /\ pending = {1, 2}
    /\ mux_pc = "wait"
    /\ mux_event = [id |-> 0, etype |-> "", code |-> ""]
    /\ wire = <<>>
    /\ yielded = <<>>
    /\ decoded = <<>>
    /\ mux_last = [both |-> FALSE, chunk |-> 0, msg |-> 0]
NextMux ==
    \/ MuxMicPut /\ UNCHANGED MuxFrame
    \/ WsArrive /\ UNCHANGED MuxFrame
    \/ GetTaskRun /\ UNCHANGED MuxFrame
    \/ RecvTaskRun /\ UNCHANGED MuxFrame
    \/ SendTaskRun /\ UNCHANGED MuxFrame
    \/ MuxPass /\ UNCHANGED MuxFrame
    \/ MuxResume /\ UNCHANGED MuxFrame
    \/ MuxClose /\ UNCHANGED MuxFrame
SpecMux == InitMux /\ [][NextMux]_vars

\* main() with the mic thread and the playback thread
MainFrame == <<volVars, cap_n, vad_cfg, vad_activation, vad_chunk_buffer, vad_seen,
               vad_hist, vad_last, vad_lost, mic_writes, recording_queue, skip_pass,
               duckHist, muxVars, pipeVars, haVars, wakeVars, procVars, detVars>>
InitMain ==
    /\ VolIdle /\ StateInit /\ GateIdle /\ SkipInit /\ MuxIdle
    /\ cap_n = 0
    /\ mic_writes = 0
    /\ mic_pc = "wait"
    /\ PlaybackIdle
    /\ PulseIdle
    /\ MainInit
    /\ main_args \in [awake : BOOLEAN, done : BOOLEAN, duck : BOOLEAN, vad : BOOLEAN]
    /\ PipeIdle /\ HaIdle /\ WakeIdle /\ ProcIdle /\ DetIdle
NextMain ==
    \/ MainConnect /\ UNCHANGED MainFrame
    \/ MainEvent /\ UNCHANGED MainFrame
    \/ MainException /\ UNCHANGED MainFrame
    \/ MainShutdown /\ UNCHANGED MainFrame
    \/ MainJoined /\ UNCHANGED MainFrame
    \/ CaptureChunk /\ UNCHANGED MainFrame
    \/ MainMicChunk /\ UNCHANGED MainFrame
    \/ MainMicWrite /\ UNCHANGED MainFrame
    \/ PlaybackGet /\ UNCHANGED <<MainFrame, mainVars, ready_to_stream, mic_pc>>
    \/ PlaybackWrite /\ UNCHANGED <<MainFrame, mainVars, ready_to_stream, mic_pc>>
SpecMain == InitMain /\ [][NextMain]_vars
\* the threads and the event loop are scheduled; the capture source and the
\* server owe nothing
SpecMainFair ==
    /\ SpecMain
    /\ WF_vars(MainJoined /\ UNCHANGED MainFrame)
    /\ WF_vars(MainMicChunk /\ UNCHANGED MainFrame)
    /\ WF_vars(MainMicWrite /\ UNCHANGED MainFrame)
    /\ WF_vars(PlaybackGet /\ UNCHANGED <<MainFrame, mainVars, ready_to_stream, mic_pc>>)
    /\ WF_vars(PlaybackWrite /\ UNCHANGED <<MainFrame, mainVars, ready_to_stream, mic_pc>>)

\* main(), the playback thread and the mic thread running the pipeline of
\* mic_thread_entry, for every choice of the VAD and wake word stages
PipeFrame == <<volVars, vad_seen, vad_hist, vad_last, vad_lost, mic_writes, skip_pass,
               duckHist, muxVars, haVars, wakeVars, procVars, detVars>>
PipeMainFrame == <<PipeFrame, cap_n, vad_cfg, vad_activation, vad_chunk_buffer,
                   recording_queue, pipeVars>>
InitPipe ==
    /\ VolIdle /\ StateInit /\ GateInit /\ SkipInit /\ MuxIdle /\ HaIdle /\ WakeIdle /\ ProcIdle /\ DetIdle
    /\ cap_n = 0
    /\ mic_writes = 0
    /\ mic_pc = "capture"
    /\ vad_cfg \in [thr : 1..MaxProb, lvl : 1..MaxPipeTrigger, n : 1..MaxPipeBuf]
    /\ PlaybackIdle
    /\ PulseIdle
    /\ MainInit
    /\ main_args \in [awake : BOOLEAN, done : BOOLEAN, duck : BOOLEAN, vad : BOOLEAN]
    /\ ~main_args.vad => vad_cfg = [thr |-> 1, lvl |-> 1, n |-> 1]
    /\ pipe_wake \in BOOLEAN
    /\ pipe_flush = <<>>
NextPipe ==
    \/ MainConnect /\ UNCHANGED PipeMainFrame
    \/ MainEvent /\ UNCHANGED PipeMainFrame
    \/ MainException /\ UNCHANGED PipeMainFrame
    \/ PlaybackGet /\ UNCHANGED <<PipeMainFrame, mainVars, ready_to_stream, mic_pc>>
    \/ PlaybackWrite /\ UNCHANGED <<PipeMainFrame, mainVars, ready_to_stream, mic_pc>>
    \/ PipeCapture /\ UNCHANGED PipeFrame
    \/ PipeVadStage /\ UNCHANGED PipeFrame
    \/ PipeWakeStage /\ UNCHANGED PipeFrame
SpecPipe == InitPipe /\ [][NextPipe]_vars

\* an HAConnection after __aenter__, its callers and the server
HaFrame == <<volVars, stateVars, vadVars, skipVars, pbVars, paVars, duckHist, muxVars,
             mainVars, pipeVars, wakeVars, procVars, detVars>>
InitHA ==
    /\ VolIdle /\ StateInit /\ MicThreadIdle /\ GateIdle /\ SkipInit /\ PlaybackIdle
    /\ PulseIdle /\ MuxIdle /\ MainIdle /\ PipeIdle /\ WakeIdle /\ ProcIdle /\ DetIdle
    /\ HaInit
NextHA ==
    \/ HaSend /\ UNCHANGED HaFrame
    \/ HaReceive /\ UNCHANGED HaFrame
    \/ HaGet /\ UNCHANGED HaFrame
    \/ HaResume /\ UNCHANGED HaFrame
    \/ HaClose /\ UNCHANGED HaFrame
SpecHA == InitHA /\ [][NextHA]_vars

\* the wake word stage in the mic thread, the detector's task in the event
\* loop, and the other writers of state.mic
WakeFrame == <<volVars, vad_cfg, vad_activation, vad_chunk_buffer, vad_seen, vad_hist,
               vad_last, vad_lost, skip_pass, pbVars, paVars, duckHist, muxVars,
               mainVars, pipeVars, haVars, procVars, detVars>>
InitWake ==
    /\ VolIdle /\ StateInit /\ GateIdle /\ SkipInit /\ PlaybackIdle /\ PulseIdle
    /\ MuxIdle /\ MainIdle /\ PipeIdle /\ HaIdle /\ ProcIdle /\ DetIdle
    /\ cap_n = 0
    /\ mic_pc = "wake_check"
    /\ mic_writes = 0
    /\ WakeInit
NextWake ==
    \/ WakeCheck /\ UNCHANGED WakeFrame
    \/ WakeWoken /\ UNCHANGED WakeFrame
    \/ WakeDispose /\ UNCHANGED WakeFrame
    \/ WakeDetect /\ UNCHANGED WakeFrame
    \/ WakeMicWrittenElsewhere /\ UNCHANGED WakeFrame
SpecWake == InitWake /\ [][NextWake]_vars

\* _mic_proc alone, with VAD, state.mic also written by the other threads
MicProcFrame == <<volVars, vad_prob, vad_seen, vad_hist, vad_last, vad_lost, skip_pass,
                  pbVars, paVars, duckHist, muxVars, mainVars, pipeVars, haVars, wakeVars,
                  detVars>>
InitMicProc ==
    /\ VolIdle /\ StateInit /\ GateInit /\ SkipInit /\ PlaybackIdle /\ PulseIdle
    /\ MuxIdle /\ MainInit /\ PipeIdle /\ HaIdle /\ WakeIdle /\ DetIdle
    /\ main_args \in [awake : {FALSE}, done : {FALSE}, duck : {FALSE}, vad : BOOLEAN]
    /\ vad_cfg \in [thr : 1..MaxProb, lvl : 1..MaxPipeTrigger, n : 1..MaxPipeBuf]
    /\ ~main_args.vad => vad_cfg = [thr |-> 1, lvl |-> 1, n |-> 1]
    /\ cap_n = 0
    /\ mic_writes = 0
    /\ mic_pc = "proc_capture"
    /\ ProcInit
NextMicProc ==
    \/ MicProcCapture /\ UNCHANGED <<MicProcFrame, mic_writes>>
    \/ MicProcGate /\ UNCHANGED <<MicProcFrame, mic_writes>>
    \/ MicProcPut /\ UNCHANGED <<MicProcFrame, mic_writes>>
    \/ MicProcMicWrittenElsewhere /\ UNCHANGED MicProcFrame
SpecMicProc == InitMicProc /\ [][NextMicProc]_vars

\* main(), the playback thread and _mic_proc
MicMainFrame == <<volVars, vad_seen, vad_hist, vad_last, vad_lost, mic_writes, skip_pass,
                  duckHist, muxVars, pipeVars, haVars, wakeVars, detVars>>
MicMainRest == <<MicMainFrame, cap_n, vad_cfg, vad_activation, vad_chunk_buffer,
                 recording_queue, procVars, detVars>>
InitMicMain ==
    /\ VolIdle /\ StateInit /\ GateInit /\ SkipInit /\ MuxIdle /\ PipeIdle /\ HaIdle /\ WakeIdle
    /\ DetIdle
    /\ PlaybackIdle
    /\ PulseIdle
    /\ MainInit
    /\ main_args \in [awake : BOOLEAN, done : BOOLEAN, duck : BOOLEAN, vad : BOOLEAN]
    /\ vad_cfg \in [thr : 1..MaxProb, lvl : 1..MaxPipeTrigger, n : 1..MaxPipeBuf]
    /\ ~main_args.vad => vad_cfg = [thr |-> 1, lvl |-> 1, n |-> 1]
    /\ cap_n = 0
    /\ mic_writes = 0
    /\ mic_pc = "proc_capture"
    /\ ProcInit
NextMicMain ==
    \/ MainConnect /\ UNCHANGED MicMainRest
    \/ MainEvent /\ UNCHANGED MicMainRest
    \/ MainException /\ UNCHANGED MicMainRest
    \/ PlaybackGet /\ UNCHANGED <<MicMainRest, mainVars, ready_to_stream, mic_pc>>
    \/ PlaybackWrite /\ UNCHANGED <<MicMainRest, mainVars, ready_to_stream, mic_pc>>
    \/ MicProcCapture /\ UNCHANGED <<MicMainFrame, pbVars, paVars, mainVars>>
    \/ MicProcGate /\ UNCHANGED <<MicMainFrame, pbVars, paVars, mainVars>>
    \/ MicProcPut /\ UNCHANGED <<MicMainFrame, pbVars, paVars, mainVars>>
SpecMicMain == InitMicMain /\ [][NextMicMain]_vars

\* a WyomingWakeWordDetector, the wake word stage calling process_chunk and
\* reset, the wake word server, and the _run_wyoming tasks in the event loop
\* (the detector is not closed here: __aexit__ is not called)
DetFrame == <<volVars, stateVars, vadVars, skipVars, pbVars, paVars, duckHist, muxVars,
              mainVars, pipeVars, haVars, wake_queue, wake_det_at, wake_woke_at, procVars>>
InitDetector ==
    /\ VolIdle /\ StateInit /\ MicThreadIdle /\ GateIdle /\ SkipInit /\ PlaybackIdle
    /\ PulseIdle /\ MuxIdle /\ MainIdle /\ PipeIdle /\ HaIdle /\ WakeIdle /\ ProcInit
    /\ DetInit
NextDetector ==
    \/ ProcessChunk /\ UNCHANGED DetFrame
    \/ DetectorReset /\ UNCHANGED DetFrame
    \/ RunWyomingStart /\ UNCHANGED DetFrame
    \/ RunWyomingArm /\ UNCHANGED DetFrame
    \/ RunWyomingGet /\ UNCHANGED DetFrame
    \/ RunWyomingRecv /\ UNCHANGED DetFrame
    \/ RunWyomingPass /\ UNCHANGED DetFrame
    \/ RunWyomingRearm /\ UNCHANGED DetFrame
    \/ RunWyomingFinish /\ UNCHANGED DetFrame
SpecDetector == InitDetector /\ [][NextDetector]_vars

(***************************************************************************)
(* The claims                                                              *)
(***************************************************************************)

\* the device writes of a media of n chunks put as item id
WritesOf(id, n) == [k \in 1..n |-> [ev |-> "write", id |-> id, arg |-> k]]

\* C1: the playback thread executes the items in the order they were put,
\* one at a time: the log of executed commands and device writes is ordered
\* by put number, and before anything of a later item happens every chunk
\* of an earlier PlayMedia has been written.  For the items PlayMedia(A),
\* SetMicState(RECORDING), PlayMedia(B) the log is: all writes of A, then
\* state.mic = RECORDING, then all writes of B.
C1_PlaybackFifo ==
    /\ \A i, j \in 1..Len(pb_log) : i < j => pb_log[i].id <= pb_log[j].id
    /\ \A j \in 1..Len(pb_log) : \A i \in 1..(j - 1) :
          (pb_log[i].ev = "play" /\ pb_log[i].id < pb_log[j].id) =>
              \A k \in 1..media_len[pb_log[i].arg] :
                  \E w \in (i + 1)..(j - 1) :
                      pb_log[w] = [ev |-> "write", id |-> pb_log[i].id, arg |-> k]
    /\ \A j \in 1..Len(pb_log) :
          pb_log[j].ev = "write" =>
              /\ j > 1
              /\ pb_log[j - 1].id = pb_log[j].id
              /\ pb_log[j - 1].ev = IF pb_log[j].arg = 1 THEN "play" ELSE "write"
              /\ pb_log[j].arg > 1 => pb_log[j - 1].arg = pb_log[j].arg - 1
    /\ \A j \in 1..Len(pb_log) :
          pb_log[j].ev = "mic" => pb_submitted[pb_log[j].id] = SetMicState(pb_log[j].arg)
    /\ (/\ pb_submitted = <<PlayMedia("A"), SetMicState(RECORDING), PlayMedia("B")>>
        /\ playback_queue = <<>>
        /\ pb_pc = "get")
          => pb_log = <<[ev |-> "play", id |-> 1, arg |-> "A"]>>
                          \o WritesOf(1, media_len["A"])
                          \o <<[ev |-> "mic", id |-> 2, arg |-> RECORDING]>>
                          \o <<[ev |-> "play", id |-> 3, arg |-> "B"]>>
                          \o WritesOf(3, media_len["B"])

\* PlayMedia(A), SetMicState(RECORDING), PlayMedia(B) were put while A was
\* still playing, and all three have been executed
C1_Witness ==
    /\ pb_submitted = <<PlayMedia("A"), SetMicState(RECORDING), PlayMedia("B")>>
    /\ playback_queue = <<>>
    /\ pb_pc = "get"
    /\ media_len = [m \in Media |-> 2]
    /\ Len(pb_log) = 7
    /\ pb_log[4] = [ev |-> "mic", id |-> 2, arg |-> RECORDING]

\* C2: when the VAD gate triggers on the k-th chunk received in WAIT_FOR_VAD
\* (since the last flush), it yields exactly chunks max(1, k-N+1)..k of
\* those chunks in order, N = vad_buffer_chunks; the evicted chunks are in
\* neither the buffer nor the output; a chunk that arrives while mic is not
\* WAIT_FOR_VAD (so chunk k+1 after a trigger) is yielded alone, at once.
\* For N = 5 and k = 7 the flush is chunks 3..7.
C2_VadFlush ==
    /\ vad_last.trig =>
          LET k == Len(vad_last.seen)
          IN vad_last.out = SubSeq(vad_last.seen, Max(1, k - vad_cfg.n + 1), k)
    /\ (vad_last.chunk > 0 /\ ~vad_last.waiting) => vad_last.out = <<vad_last.chunk>>
    /\ vad_lost \cap (Range(vad_chunk_buffer) \cup Range(vad_last.out)) = {}
    /\ (vad_last.trig /\ vad_cfg.n = 5 /\ vad_last.seen = <<1, 2, 3, 4, 5, 6, 7>>)
          => vad_last.out = <<3, 4, 5, 6, 7>>

\* the gate with N = 5 has just triggered on the 7th chunk and flushed 3..7,
\* chunks 1 and 2 having been evicted
C2_Witness ==
    /\ vad_last.trig
    /\ vad_cfg.n = 5
    /\ vad_last.seen = <<1, 2, 3, 4, 5, 6, 7>>
    /\ vad_last.out = <<3, 4, 5, 6, 7>>
    /\ vad_lost = {1, 2}

\* the chunk after that flush has passed the gate un-buffered
C2_WitnessNext ==
    /\ vad_last.chunk = 8
    /\ ~vad_last.waiting
    /\ vad_last.out = <<8>>
    /\ vad_lost = {1, 2}

\* the activation counter the claim describes, over the scores (TRUE: at or
\* above the threshold) of the chunks seen in WAIT_FOR_VAD
RECURSIVE FlooredCount(_)
FlooredCount(h) ==
    IF h = <<>> THEN 0
    ELSE LET a == FlooredCount(SubSeq(h, 1, Len(h) - 1))
         IN IF h[Len(h)] THEN a + 1 ELSE IF a = 0 THEN 0 ELSE a - 1

\* C3: in WAIT_FOR_VAD the counter goes up by 1 for a chunk with
\* vad_prob >= threshold and down by 1, not below 0, otherwise (so
\* trigger_level - 1 chunks above and one below leave max(0, trigger_level - 2));
\* the gate sets mic = WAIT_FOR_WAKE_WORD in the step in which the counter
\* reaches trigger_level, and in no other step.
C3_StepRule ==
    (mic_pc = "gate" /\ mic_pc' = "score") =>
        IF mic = WAIT_FOR_VAD
        THEN LET n == IF vad_prob >= vad_cfg.thr THEN vad_activation + 1
                      ELSE IF vad_activation = 0 THEN 0 ELSE vad_activation - 1
             IN IF n = vad_cfg.lvl
                THEN mic' = WAIT_FOR_WAKE_WORD
                ELSE mic' = WAIT_FOR_VAD /\ vad_activation' = n
        ELSE mic' = mic /\ vad_activation' = vad_activation
C3_CounterInv ==
    /\ vad_activation = FlooredCount(vad_hist)
    /\ vad_activation >= 0
    /\ vad_activation < vad_cfg.lvl
    /\ (/\ Len(vad_hist) = vad_cfg.lvl
        /\ \A i \in 1..(vad_cfg.lvl - 1) : vad_hist[i]
        /\ ~vad_hist[vad_cfg.lvl])
          => vad_activation = Max(0, vad_cfg.lvl - 2)
    /\ vad_last.trig => FlooredCount(vad_last.hist) = vad_cfg.lvl
C3_VadCounter == []C3_CounterInv /\ [][C3_StepRule]_vars

\* trigger_level = 3: two chunks above the threshold and one below have
\* left the counter at 1
C3_Witness ==
    /\ vad_cfg.lvl = 3
    /\ vad_hist = <<TRUE, TRUE, FALSE>>
    /\ vad_activation = 1
    /\ mic = WAIT_FOR_VAD

\* the gate has opened after a decrement at 0 and three increments
C3_WitnessTrigger ==
    /\ vad_cfg.lvl = 3
    /\ vad_last.trig
    /\ vad_last.hist = <<FALSE, TRUE, TRUE, TRUE>>
    /\ mic = WAIT_FOR_WAKE_WORD

WireChunks == [i \in 1..Len(wire) |-> wire[i].chunk]
PendingOf(kind) == {t \in pending : tasks[t].kind = kind}

C5_OneOfEach ==
    mux_pc = "wait" =>
        /\ Cardinality(PendingOf("recv")) = 1
        /\ Cardinality(PendingOf("get")) = 1

\* C6: resuming the multiplexer after it yielded run-end, or an error whose
\* code is not wake-word-timeout, ends it; once ended it stays ended, yields
\* nothing more and removes no further chunk from the queue.
C6_Step ==
    /\ ( /\ mux_pc = "yield"
         /\ mux_pc' \notin {"yield", "closed"}
         /\ \/ mux_event.etype = "run-end"
            \/ mux_event.etype = "error" /\ mux_event.code # "wake-word-timeout" )
       => mux_pc' = "ended"
    /\ mux_pc = "ended" =>
          /\ mux_pc' = "ended"
          /\ yielded' = yielded
          /\ decoded' = decoded
          /\ \/ recording_queue' = recording_queue
             \/ \E c \in 1..MaxMuxChunks + 1 : recording_queue' = Append(recording_queue, c)
C6_EndsAfterTerminal == [][C6_Step]_vars

\* ended after run-end with a chunk put afterwards still on the queue
C6_Witness ==
    /\ mux_pc = "ended"
    /\ mux_event.etype = "run-end"
    /\ recording_queue # <<>>
    /\ yielded # <<>>

\* ended after an error other than the wake word timeout
C6_WitnessError ==
    /\ mux_pc = "ended"
    /\ mux_event.etype = "error"
    /\ recording_queue # <<>>

\* C7 (as stated): on every exit of the multiplexer, by its return, by an
\* exception or by the caller closing it, no operation it started is still
\* pending.
C7_AllCancelled ==
    mux_pc \in {"ended", "raised", "closed"} =>
        \A t \in DOMAIN tasks : tasks[t].st # "pending"

DuckRunEndsWith(args) ==
    /\ Len(duck_run) >= Len(args)
    /\ SubSeq(duck_run, Len(duck_run) - Len(args) + 1, Len(duck_run)) = args

\* C9: after duck(True), duck(True) the remembered volume of every ducked
\* stream is still the volume it had before the first duck(True); after
\* duck(True), duck(True), duck(False) every such stream is back at that
\* volume and nothing is remembered; a duck(False) that follows a
\* duck(False) changes no volume.
C9_DuckInv ==
    \A i \in DuckTargets(streams) :
        /\ DuckRunEndsWith(<<TRUE, TRUE>>) =>
              /\ i \in DOMAIN ducked
              /\ ducked[i] = duck_snap[i]
              /\ streams[i].vol = AllChans(ducking_volume)
        /\ DuckRunEndsWith(<<TRUE, TRUE, FALSE>>) =>
              /\ streams[i].vol = duck_snap[i]
              /\ i \notin DOMAIN ducked
C9_SecondUnduck ==
    (duck_n' = duck_n + 1 /\ duck_prev = "False" /\ duck_prev' = "False")
        => streams' = streams
C9_DuckIdempotent == []C9_DuckInv /\ [][C9_SecondUnduck]_vars

\* duck(True), duck(True), duck(False) have run on a stream whose volume
\* was not the ducking volume, and it has its volume back
C9_Witness ==
    /\ duck_run = <<TRUE, TRUE, FALSE>>
    /\ \E i \in DuckTargets(streams) :
          /\ duck_snap[i] # AllChans(ducking_volume)
          /\ duck_snap[i][1] # duck_snap[i][2]
          /\ streams[i].vol = duck_snap[i]

\* the sample the claim gives for input sample x and multiplier m
VolumeExpected(x, m) ==
    IF x * m[1] > 32767 * m[2] THEN 32767
    ELSE IF x * m[1] < -32768 * m[2] THEN -32768
    ELSE IF x * m[1] >= 0 THEN (x * m[1]) \div m[2]
    ELSE -((-(x * m[1])) \div m[2])

\* C10: multiply_volume maps every sample s to s times the multiplier,
\* clamped to [-32768, 32767] and truncated toward zero, never wrapped;
\* 20000 times 2 is 32767 and -32768 times 0.5 is -16384; the output has as
\* many samples as the input.
C10_MultiplyVolume ==
    vol_pc = "out" =>
        LET in == DecodeH(vol_chunk)
            out == DecodeH(vol_out)
        IN /\ Len(vol_out) = Len(vol_chunk)
           /\ Len(out) = Len(in)
           /\ \A i \in 1..Len(in) :
                 /\ out[i] = VolumeExpected(in[i], vol_mult)
                 /\ out[i] \in -32768..32767
                 /\ (vol_mult = <<2, 1>> /\ in[i] = 20000) => out[i] = 32767
                 /\ (vol_mult = <<1, 2>> /\ in[i] = -32768) => out[i] = -16384

\* 20000 has been doubled to 32767
C10_Witness ==
    /\ vol_pc = "out"
    /\ vol_mult = <<2, 1>>
    /\ DecodeH(vol_chunk) = <<20000>>
    /\ DecodeH(vol_out) = <<32767>>

\* -32768 has been halved to -16384
C10_WitnessHalf ==
    /\ vol_pc = "out"
    /\ vol_mult = <<1, 2>>
    /\ DecodeH(vol_chunk) = <<-32768>>
    /\ DecodeH(vol_out) = <<-16384>>

\* C11 (as stated): a PlayMedia that fails is caught locally; the playback
\* thread goes on with the items queued after it and the process does not
\* exit.
C11_FailureCaught == pb_pc # "crashed"

\* C20 (as stated): after a message that is not a text frame or not an event
\* envelope the multiplexer keeps receiving: while it waits, a receive is
\* outstanding whenever a run-end sent by the server is waiting to be taken.
C20_KeepsReceiving ==
    (mux_pc = "wait" /\ \E i \in 1..Len(ws_in) : ws_in[i].data = "run-end")
        => PendingOf("recv") # {}

\* has the playback thread executed a SetMicState(WAIT_FOR_VAD) put after
\* the first n items
ReturnExecutedAfter(n) ==
    \E i \in 1..Len(pb_log) :
        pb_log[i].ev = "mic" /\ pb_log[i].arg = WAIT_FOR_VAD /\ pb_log[i].id > n
\* has the PlayMedia with put number id finished playing
PlayDone(id) ==
    /\ \E i \in 1..Len(pb_log) : pb_log[i].ev = "play" /\ pb_log[i].id = id
    /\ ~(pb_pc = "play" /\ pb_item.id = id)

\* C12 (as stated): after main() has handled a run-end or error event,
\* state.mic becomes WAIT_FOR_VAD; the process never exits while that return
\* is still owed.
C12_ReturnsToWaitForVad ==
    ~(ret_mark >= 0 /\ ~ReturnExecutedAfter(ret_mark) /\ pb_pc = "crashed")

\* C13 (as stated): from the handling of stt-end until the playback thread
\* executes the SetMicState(WAIT_FOR_VAD) of that run, state.mic is
\* NOT_RECORDING.
C13_MicSuppressed ==
    (stt_mark >= 0 /\ ~ReturnExecutedAfter(stt_mark)) => mic = NOT_RECORDING

\* C14 (as stated): once a run-end or error is handled, state.mic does not
\* return to WAIT_FOR_VAD while a PlayMedia put before it in that run is
\* not finished.
C14_Step ==
    (mic # WAIT_FOR_VAD /\ mic' = WAIT_FOR_VAD)
        => \A id \in ret_plays : PlayDone(id)'
C14_ReturnAfterPlays == [][C14_Step]_vars

\* C15 (as stated): every change of state.mic is an assignment by the mic
\* thread or the execution of a SetMicState item by the playback thread.
C15_Step ==
    mic' # mic =>
        \/ mic_pc = "armed" /\ mic_pc' = "wait"
        \/ /\ Len(pb_log') = Len(pb_log) + 1
           /\ pb_log'[Len(pb_log')].ev = "mic"
C15_MicWriters == [][C15_Step]_vars

\* C18 (as stated): after a handshake that did not go auth_required, auth,
\* auth_ok the process terminates: main() starts no other run.
C18_HandshakeFatal == hs_failed => main_pc \in {"join", "ended"}

\* C19 (as stated): after is_running is set to false the mic thread and the
\* playback thread eventually stop.
C19_ShutdownStops ==
    (~is_running) ~> (mic_pc = "stopped" /\ pb_pc \in {"returned", "crashed"})

HeldBy(k) ==
    Range(ha_calls[k].got)
        \cup (IF ha_calls[k].pc # "closed" THEN Range(ha_queues[ha_calls[k].id]) ELSE {})

\* C17: a call receives only responses that carry the id of its request, no
\* response is received by two calls, and a response that arrives after the
\* request of its id was sent is received by the call of that request or
\* waits in its queue as long as the call is open, in whatever order the
\* responses arrive
C17_Dispatch ==
    /\ \A k \in 1..Len(ha_calls) : \A r \in HeldBy(k) : r.id = ha_calls[k].id
    /\ \A k1, k2 \in 1..Len(ha_calls) : k1 # k2 => HeldBy(k1) \cap HeldBy(k2) = {}
    /\ \A i \in 1..Len(ha_arrived) : \A k \in 1..Len(ha_calls) :
          (/\ ha_arrived[i].type = "TEXT"
           /\ k <= ha_arrived[i].calls
           /\ ha_arrived[i].id = ha_calls[k].id
           /\ ha_calls[k].pc # "closed")
              => [n |-> ha_arrived[i].n, id |-> ha_arrived[i].id] \in HeldBy(k)
\* two calls are outstanding, the response to the later request arrives
\* first, and each call has received its response
C17_Witness ==
    \E k1, k2 \in 1..Len(ha_calls) :
        /\ k1 < k2
        /\ ha_calls[k1].got # <<>> /\ ha_calls[k2].got # <<>>
        /\ ha_calls[k2].got[1].n < ha_calls[k1].got[1].n

\* the receive tasks that returned a frame of the given types and that the
\* loop has taken out of pending
ReceivedOf(types) ==
    {t \in DOMAIN tasks : /\ tasks[t].kind = "recv"
                          /\ tasks[t].st = "done"
                          /\ t \notin pending
                          /\ tasks[t].val.type \in types}

\* C21 (as stated): once the receive has returned a close or error frame the
\* multiplexer does not go on running (it is never again at its asyncio.wait)
C21_ConnectionLossFatal ==
    ReceivedOf({"CLOSED", "ERROR"}) # {} => mux_pc # "wait"

\* C22: when the generator is resumed after it yielded an error event with
\* code wake-word-timeout, it does not end: it is back at its asyncio.wait
\* with a new receive and a get of the next chunk pending
C22_Step ==
    (/\ mux_pc = "yield"
     /\ mux_event.etype = "error" /\ mux_event.code = "wake-word-timeout"
     /\ mux_pc' \notin {"yield", "closed"})
        => /\ mux_pc' = "wait"
           /\ event_task' \in pending'
           /\ tasks'[event_task'].st = "pending"
           /\ tasks'[audio_task'].kind = "get"
           /\ audio_task' \in pending'
C22_TimeoutGoesOn == [][C22_Step]_vars
\* a wake-word-timeout error was yielded, and after it a chunk was forwarded
\* and a later event yielded
C22_Witness ==
    /\ Len(yielded) >= 2
    /\ \E t \in DOMAIN tasks :
          /\ tasks[t].kind = "recv" /\ tasks[t].st = "done"
          /\ tasks[t].val.id = yielded[1]
          /\ tasks[t].val.data = "error wake-word-timeout"
          /\ \E u \in DOMAIN tasks : u > t /\ tasks[u].kind = "send" /\ tasks[u].st = "done"

\* C30: every frame sent starts with the handler id and carries one chunk
\* that was taken from the queue, and no chunk is sent in two frames
C30_FramePerChunk ==
    /\ \A i \in 1..Len(wire) :
          /\ wire[i].prefix = handler_id
          /\ wire[i].chunk \in 1..cap_n
          /\ wire[i].chunk \notin Range(recording_queue)
    /\ \A i, j \in 1..Len(wire) : i # j => wire[i].chunk # wire[j].chunk
\* two chunks were sent, behind a handler id that is not 0
C30_Witness == Len(wire) >= 2 /\ handler_id # 0

\* C24: when the VAD gate takes a chunk while mic is not WAIT_FOR_VAD it
\* yields that chunk alone and leaves the ring buffer, the activation
\* counter, state.mic and state.vad_prob as they were
C24_Step ==
    (mic_pc = "gate" /\ mic_pc' = "score" /\ mic # WAIT_FOR_VAD)
        => /\ vad_last'.out = <<cap_n>>
           /\ vad_chunk_buffer' = vad_chunk_buffer
           /\ vad_activation' = vad_activation
           /\ mic' = mic
           /\ vad_prob' = vad_prob
C24_PassThrough == [][C24_Step]_vars
\* the gate has just passed a chunk through while chunks were buffered, the
\* counter was above 0 and an unread score was in state.vad_prob
C24_Witness ==
    /\ mic_pc = "score"
    /\ vad_last.chunk = cap_n /\ cap_n > 0
    /\ ~vad_last.waiting
    /\ vad_last.out = <<cap_n>>
    /\ vad_chunk_buffer # <<>>
    /\ vad_activation > 0
    /\ vad_prob > 0

\* C25: a scorer never changes state.mic, and changes state.vad_prob only
\* when state.mic is WAIT_FOR_VAD
C25_Step ==
    (mic_pc = "score" /\ mic_pc' = "gate")
        => /\ mic' = mic
           /\ mic # WAIT_FOR_VAD => vad_prob' = vad_prob
C25_ScorerWrites == [][C25_Step]_vars
\* a chunk has passed the scorer while mic was not WAIT_FOR_VAD (the only
\* write of another thread came before the gate passed the previous chunk
\* through) and a score written earlier is still in state.vad_prob
C25_Witness ==
    /\ mic_pc = "gate"
    /\ mic # WAIT_FOR_VAD
    /\ mic_writes = 1
    /\ cap_n >= 2
    /\ vad_last.chunk = cap_n - 1
    /\ ~vad_last.waiting
    /\ vad_prob > 0

\* C23 (as stated): a score is read by the gate before the scorer writes the
\* next one: when a scorer writes state.vad_prob, the score written before
\* has been read and reset to 0
C23_Step ==
    (mic_pc = "capture" /\ mic_pc' = "vad" /\ main_args.vad /\ mic = WAIT_FOR_VAD)
        => vad_prob = 0
C23_ScoreReadOnce == [][C23_Step]_vars

\* C29 (as stated): no chunk is put on recording_queue while state.mic is
\* NOT_RECORDING
C29_Step ==
    Len(recording_queue') > Len(recording_queue) => mic # NOT_RECORDING
C29_NoPutWhenNotRecording == [][C29_Step]_vars

\* C28 (as stated): every change of state.mic is NOT_RECORDING to
\* WAIT_FOR_VAD, WAIT_FOR_VAD to WAIT_FOR_WAKE_WORD, WAIT_FOR_WAKE_WORD to
\* RECORDING (or WAIT_FOR_VAD to RECORDING, the form without wake word
\* detection) or RECORDING to NOT_RECORDING
C28_Listed ==
    {<<NOT_RECORDING, WAIT_FOR_VAD>>, <<WAIT_FOR_VAD, WAIT_FOR_WAKE_WORD>>,
     <<WAIT_FOR_WAKE_WORD, RECORDING>>, <<WAIT_FOR_VAD, RECORDING>>,
     <<RECORDING, NOT_RECORDING>>}
C28_Step == mic' # mic => <<mic, mic'>> \in C28_Listed
C28_FourTransitions == [][C28_Step]_vars

\* C26: when the wake word stage disposes of a chunk while state.mic is
\* WAIT_FOR_WAKE_WORD the chunk is handed to the detector and not put on
\* recording_queue; the stage emits a chunk only when state.mic is not
\* WAIT_FOR_WAKE_WORD at that moment, and then it emits exactly that chunk
C26_Step ==
    (mic_pc = "wake_dispose" /\ mic_pc' = "wake_check")
        => /\ mic = WAIT_FOR_WAKE_WORD
               => /\ wake_queue' = Append(wake_queue, cap_n)
                  /\ recording_queue' = recording_queue
           /\ mic # WAIT_FOR_WAKE_WORD
               => /\ recording_queue' = Append(recording_queue, cap_n)
                  /\ wake_queue' = wake_queue
C26_WakeGate ==
    [][C26_Step /\ (recording_queue' # recording_queue => mic # WAIT_FOR_WAKE_WORD)]_vars
\* chunk 1 was emitted, chunk 2 was handed to the detector while state.mic was
\* WAIT_FOR_WAKE_WORD
C26_Witness ==
    /\ mic_pc = "wake_check"
    /\ mic = WAIT_FOR_WAKE_WORD
    /\ recording_queue = <<1>>
    /\ wake_queue = <<2>>
    /\ mic_writes = 1

\* C27: the stage reads the detected flag once per chunk, when the chunk
\* arrives and before it disposes of it: it triggers exactly when state.mic is
\* WAIT_FOR_WAKE_WORD and the flag is set, it then resets the detector, sets
\* state.mic = RECORDING and sets the event; no other step of the stage and no
\* recording of a detection changes state.mic or the event, so a detection
\* recorded while chunk k is the latest chunk takes effect at a later chunk
C27_Step ==
    /\ (mic_pc = "wake_check" /\ mic_pc' # mic_pc)
        => /\ mic_pc' = "wake_woken" <=> (mic = WAIT_FOR_WAKE_WORD /\ wake_detected)
           /\ UNCHANGED <<mic, ready_to_stream, wake_detected, wake_queue>>
    /\ (mic_pc = "wake_woken" /\ mic_pc' # mic_pc)
        => /\ mic' = RECORDING
           /\ ready_to_stream'
           /\ ~wake_detected'
           /\ wake_queue' = <<>>
    /\ (mic_pc = "wake_dispose" /\ mic_pc' # mic_pc)
        => UNCHANGED <<mic, ready_to_stream, wake_detected>>
    /\ (wake_detected' /\ ~wake_detected)
        => UNCHANGED <<mic, ready_to_stream, mic_pc, recording_queue>>
    /\ wake_woke_at' # wake_woke_at
        => /\ wake_woke_at' = cap_n
           /\ wake_det_at < cap_n
           /\ wake_det_at >= 1
C27_CheckBeforeDispose == [][C27_Step]_vars
\* the detection was recorded while chunk k was the latest chunk; the stage
\* triggered at chunk k + 1 and emitted it
C27_Witness ==
    /\ mic_pc = "wake_check"
    /\ cap_n >= 2
    /\ wake_det_at = cap_n - 1
    /\ wake_woke_at = cap_n
    /\ mic = RECORDING
    /\ ready_to_stream
    /\ ~wake_detected
    /\ recording_queue = <<cap_n>>

\* C31: a call of duck() changes no stream that is the satellite's own or
\* plays on another sink, and the ducked map never has an entry for such a
\* stream; the streams it does change are inputs of our sink
C31_Untouched(i) == streams[i].sink # OurSink \/ streams[i].name = APP_NAME
C31_Step ==
    duck_n' # duck_n
        => /\ \A i \in DOMAIN streams : C31_Untouched(i) => streams'[i] = streams[i]
           /\ \A i \in DOMAIN ducked' : ~C31_Untouched(i)
C31_DuckOthersOnly == [][C31_Step]_vars
\* duck(True) has lowered both other streams of our sink to a ducking volume
\* below the volume of our own stream and of the stream on the other sink
C31_Witness ==
    /\ duck_n >= 1
    /\ DOMAIN ducked = {1, 2}
    /\ ducking_volume = 0
    /\ streams[1].vol = <<0, 0>> /\ streams[2].vol = <<0, 0>>
    /\ streams[3].vol = <<MaxLevel, MaxLevel>>
    /\ streams[4].vol = <<MaxLevel, MaxLevel>>

\* C32: the exit request ends the loop of _playback_proc: when the thread
\* has returned, every item put before the exit request has been executed in
\* full, and no item put after the exit request is ever executed (it stays
\* on the queue)
C32_FirstNone ==
    IF None \in Range(pb_submitted)
    THEN CHOOSE i \in 1..Len(pb_submitted) :
            pb_submitted[i] = None /\ \A j \in 1..(i - 1) : pb_submitted[j] # None
    ELSE 0
C32_Done(n) ==
    LET item == pb_submitted[n]
    IN CASE item.kind = "PlayMedia" ->
              /\ \E j \in 1..Len(pb_log) : pb_log[j] = [ev |-> "play", id |-> n, arg |-> item.arg]
              /\ \A k \in 1..media_len[item.arg] :
                    \E j \in 1..Len(pb_log) : pb_log[j] = [ev |-> "write", id |-> n, arg |-> k]
         [] item.kind = "SetMicState" ->
              \E j \in 1..Len(pb_log) : pb_log[j] = [ev |-> "mic", id |-> n, arg |-> item.arg]
         [] item.kind = "Duck" ->
              \E j \in 1..Len(pb_log) : pb_log[j] = [ev |-> "duck", id |-> n, arg |-> item.arg]
         [] OTHER -> FALSE
C32_StopSentinel ==
    /\ pb_pc = "returned"
        => /\ C32_FirstNone > 0
           /\ \A n \in 1..(C32_FirstNone - 1) : C32_Done(n)
           /\ \A n \in (C32_FirstNone + 1)..Len(pb_submitted) :
                 \E q \in 1..Len(playback_queue) : playback_queue[q].n = n
    /\ \A j \in 1..Len(pb_log) : C32_FirstNone = 0 \/ pb_log[j].id < C32_FirstNone
\* the thread has returned after executing the item put before the exit
\* request; an item put after it is still on the queue
C32_Witness ==
    /\ pb_pc = "returned"
    /\ Len(pb_submitted) = 3
    /\ C32_FirstNone = 2
    /\ pb_log # <<>>
    /\ Len(playback_queue) = 1

\* C40: when _playback_proc has returned through the exit request, every
\* stream recorded in the ducked map has the volume remembered for it, and
\* (all streams having started at full volume) no stream is below full volume
C40_UnduckOnExit ==
    pb_pc = "returned"
        => /\ \A i \in DOMAIN ducked : streams[i].vol = ducked[i]
           /\ \A i \in DOMAIN streams : streams[i].vol = <<MaxLevel, MaxLevel>>
\* the exit request was taken while both other streams of our sink were ducked
C40_Witness ==
    /\ pb_pc = "returned"
    /\ DOMAIN ducked = {1, 2}
    /\ ducking_volume < MaxLevel
    /\ \E n \in 1..Len(pb_submitted) : pb_submitted[n] = Duck(TRUE)
    /\ ~\E n \in 1..Len(pb_submitted) : pb_submitted[n] = Duck(FALSE)
    /\ streams[1].vol = <<MaxLevel, MaxLevel>>

\* C35 (as stated): once the multiplexer has ended, every chunk that was
\* taken off recording_queue is in a frame on the wire
C35_Removed == (1..cap_n) \ Range(recording_queue)
C35_Sent == {wire[i].chunk : i \in 1..Len(wire)}
C35_NoChunkDropped == mux_pc = "ended" => C35_Removed \subseteq C35_Sent

C37_FlushConsecutive ==
    pipe_flush # <<>>
        => /\ pipe_flush[Len(pipe_flush)] = cap_n
           /\ \A i \in 1..(Len(pipe_flush) - 1) : pipe_flush[i + 1] = pipe_flush[i] + 1

\* C38: _mic_proc puts chunks on the queue only in the step of the second
\* if, and only when that if reads state.mic == RECORDING; an iteration in
\* which both ifs read NOT_RECORDING neither puts nor buffers its chunk
C38_Step ==
    /\ recording_queue' # recording_queue
        => /\ mic_pc = "proc_put" /\ mic_pc' = "proc_capture"
           /\ mic = RECORDING
           /\ recording_queue' = recording_queue \o vad_chunk_buffer \o <<cap_n>>
    /\ (mic_pc = "proc_gate" /\ mic_pc' = "proc_put" /\ mic = NOT_RECORDING)
        => UNCHANGED <<vad_chunk_buffer, recording_queue>>
    /\ (mic_pc = "proc_put" /\ mic_pc' = "proc_capture" /\ mic = NOT_RECORDING)
        => UNCHANGED <<vad_chunk_buffer, recording_queue>>
C38_Inv ==
    (mic_iter.gate = NOT_RECORDING /\ mic_iter.put = NOT_RECORDING)
        => mic_iter.chunk \notin Range(recording_queue) \cup Range(vad_chunk_buffer)
C38_PutOnlyWhenRecording == [][C38_Step /\ C38_Inv']_vars
\* chunk 1 was put while RECORDING; chunk 2 went through both ifs in
\* NOT_RECORDING and is neither on the queue nor in the buffer
C38_Witness ==
    /\ mic_pc = "proc_capture"
    /\ mic_iter = [chunk |-> 2, gate |-> NOT_RECORDING, put |-> NOT_RECORDING]
    /\ recording_queue = <<1>>
    /\ vad_chunk_buffer = <<>>

\* C39 (as stated): with VAD enabled a run is never started while
\* state.mic == WAIT_FOR_VAD
C39_Step ==
    (main_args.vad /\ main_runs' = main_runs + 1) => mic # WAIT_FOR_VAD
C39_RunAfterTrigger == [][C39_Step]_vars

\* C33: after reset(), the next call of process_chunk starts a new connection:
\* it creates a fresh queue and a new _run_wyoming task, also while the task
\* of the previous connection is still finishing
C33_NewConnection ==
    \A k \in DOMAIN det_calls :
        det_calls[k].after_reset => det_calls[k].newq /\ det_calls[k].newtask

\* C34: chunks are forwarded in the order they were passed; a task waiting in
\* its loop has an audio_task outstanding (forwarding has not stopped) and
\* has forwarded every chunk it took from the queue, a Detection of another
\* name included; and such a Detection leaves the detected flag alone
C34_Forwarded(t) ==
    {det_sent[i].chunk : i \in {j \in DOMAIN det_sent : det_sent[j].task = t}}
C34_Step ==
    \A t \in DOMAIN det_tasks :
        (det_tasks[t].pc = "run" /\ det_tasks[t].ev = "other_name" /\ det_tasks'[t].ev = "none")
            => wake_detected' = wake_detected /\ det_tasks'[t].pc = "run"
C34_Inv ==
    /\ \A i, j \in DOMAIN det_sent : i < j => det_sent[i].chunk < det_sent[j].chunk
    /\ \A t \in DOMAIN det_tasks :
          det_tasks[t].pc = "run" =>
              /\ det_tasks[t].audio # "none"
              /\ \A i \in DOMAIN det_tasks[t].taken :
                    \/ det_tasks[t].taken[i] \in C34_Forwarded(t)
                    \/ det_tasks[t].taken[i] = det_tasks[t].got
C34_ForwardAll == [][C34_Step /\ C34_Inv']_vars

====
